---- MODULE Spec2Model ----
(***************************************************************************)
(* A model of AI-Novel-Writer: the generation client's parse-retry loop    *)
(* (LLMService.call_llm_with_thinking), the pipeline stages of             *)
(* NovelWriterCore (divide_paragraphs, write_paragraph, the per-paragraph  *)
(* ingestion, check_chapter_completion, the consolidation thread) and the  *)
(* auto-writing worker of the GUI.                                         *)
(***************************************************************************)
EXTENDS Integers, Sequences, FiniteSets, TLC

None == "None"

(***************************************************************************)
(* Bounds of the model.                                                    *)
(***************************************************************************)
\* number of chapters of the project
NumChapters == 2
\* longest paragraph list a divide_paragraphs response carries
MaxParas == 2
\* longest raw content string of a writing response
MaxContentLen == 1
\* consolidation threads alive at the same time
MaxThreads == 1
\* consolidation runs counted per chapter
MaxStarts == 2
\* The longest paragraph list a response gives the auto-writing worker.
MaxAutoParas == 1

(***************************************************************************)
(* Program constants.                                                      *)
(***************************************************************************)
\* LLMService.json_retry_max
JsonRetryMax == 3
\* paragraph_retry_max of the auto-writing worker
ParagraphRetryMax == 2

VARIABLES
    \* ---- LLMService.call_llm_with_thinking, one request ----
    llm_pc,        \* "idle", "loop", "returned", "raised"
    json_attempt,  \* the loop variable of the retry loop
    messages,      \* the conversation the next transport call will send
    sent,          \* the conversations handed to api_connector.call_api, in order
    outcomes,      \* what each transport call did, in order
    llm_ret,       \* the value returned (None while there is none)
    llm_exc,       \* the exception the request ended with (None while there is none)
    \* ---- JSONParser.extract_json_from_content, one call ----
    raw_content,   \* the text handed to the parser (its parameter content)
    extracted,     \* what the call gave: Pending, None, or the value returned
    \* ---- NovelWriterCore / NovelWriterGUI ----
    chapters,      \* project.chapters: status and paragraph list of every chapter
    world,         \* project.world_building
    outline,       \* project.outline: the overall outline stored last
    frames,        \* per calling thread: the core stage call it is inside
    worker,        \* the auto-writing worker's position and loop variables
    auto_writing,  \* NovelWriterGUI.auto_writing
    threads,       \* the consolidation threads started by consolidate_world_after_chapter
    consol_started, \* per chapter: how many consolidation runs were started
    \* ---- APIConnector.call_api, one call ----
    conn,          \* the call's position, its loop variable and what its attempts did
    \* ---- the API configuration and the project file ----
    api_config,    \* project.api_config: the keys of the two models
    project_file   \* the data save_project wrote last (NoFile before any save)

llmVars == <<llm_pc, json_attempt, messages, sent, outcomes, llm_ret, llm_exc>>
parserVars == <<raw_content, extracted>>
ioVars == <<conn, api_config, project_file>>
serviceVars == <<llmVars, parserVars, ioVars>>
coreVars == <<chapters, world, outline, frames, worker, auto_writing, threads,
              consol_started>>
vars == <<llm_pc, json_attempt, messages, sent, outcomes, llm_ret, llm_exc,
          raw_content, extracted,
          chapters, world, outline, frames, worker, auto_writing, threads,
          consol_started, conn, api_config, project_file>>

(***************************************************************************)
(* LLMService: the transport, the parser's verdict and the escalation.     *)
(***************************************************************************)
Prompts == {"p1", "p2"}
TaskTypes == {"writing", "world_building"}

\* What a response text is, as far as JSONParser.extract_json_from_content
\* tells responses apart: prose without any object, an empty object, an array,
\* or a fenced non-empty object.
ResponseTexts == {"prose", "{}", "[1]", "fenced o1", "fenced o2"}

\* api_connector.call_api either returns {"content": text}, where the text
\* the provider sent may be null, or raises APIException (every other
\* exception is wrapped into one).
TransportOutcomes ==
    {[kind |-> "raise", exc |-> "APIException", text |-> None]}
    \cup {[kind |-> "content", exc |-> None, text |-> t] : t \in ResponseTexts \cup {None}}

\* JSONParser.extract_json_from_content: the parsed object, the empty object
\* the repair pass hands back for "{}", or None.
ExtractJson(text) ==
    CASE text = "fenced o1" -> "o1"
      [] text = "fenced o2" -> "o2"
      [] text = "{}" -> "{}"
      [] OTHER -> None

\* Python truthiness of what extract_json_from_content returned.
Truthy(json_data) == json_data \notin {None, "{}"}

\* PromptManager.create_system_prompt
SystemPrompt(task) == <<"base_prompt", task>>

InitialMessages(prompt, task) ==
    << [role |-> "system", content |-> SystemPrompt(task)],
       [role |-> "user", content |-> <<prompt>>] >>

\* A slip of _enhance_json_prompt: the first retry gets the directive of the
\* second.
JsonEmphasisOneLevelUp(retry_count) ==
    IF retry_count = 1 THEN "json_only_directive" ELSE "checklist"

\* The suffix _enhance_json_prompt picks for a retry count.
JsonEmphasis(retry_count) ==
    IF retry_count = 1 THEN "reminder_with_example"
    ELSE IF retry_count = 2 THEN "json_only_directive"
    ELSE "checklist"

\* A slip of _enhance_json_prompt: the suffix replaces the user message.
EnhanceReplacing(msgs, retry_count) ==
    [msgs EXCEPT ![Len(msgs)].content = <<JsonEmphasis(retry_count)>>]

\* LLMService._enhance_json_prompt: the suffix is appended to the content of
\* the last message when that message is the user's.
EnhanceJsonPrompt(msgs, retry_count) ==
    IF Len(msgs) > 0 /\ msgs[Len(msgs)].role = "user"
    THEN [msgs EXCEPT ![Len(msgs)].content = Append(@, JsonEmphasis(retry_count))]
    ELSE msgs

\* A slip of the exception filter: every exception is taken for a parse failure.
HandlesAsParseFailureAlways(exc) == TRUE

\* The test of the except clause: "JSONParseException" in str(type(e)).
HandlesAsParseFailure(exc) == exc = "JSONParseException"

\* json_attempt == self.json_retry_max - 1
LastAttempt(attempt) == attempt = JsonRetryMax - 1

\* call_llm_with_thinking up to the loop: the conversation is built.
LLMRequest ==
    /\ llm_pc = "idle"
    /\ \E prompt \in Prompts, task \in TaskTypes :
          messages' = InitialMessages(prompt, task)
    /\ llm_pc' = "loop"
    /\ json_attempt' = 0
    /\ UNCHANGED <<sent, outcomes, llm_ret, llm_exc>>
    /\ UNCHANGED <<coreVars, parserVars, ioVars>>

\* "continue": the next value of range(self.json_retry_max), or, when the
\* range is used up, the raise that follows the loop.
LLMContinue ==
    /\ json_attempt' = json_attempt + 1
    /\ llm_pc' = IF json_attempt + 1 < JsonRetryMax THEN "loop" ELSE "raised"
    /\ llm_exc' = IF json_attempt + 1 < JsonRetryMax THEN None
                  ELSE "JSONParseException"
    /\ UNCHANGED llm_ret

\* A slip of the except clause: the exception of the last attempt is
\* swallowed and the call returns None.
LLMExceptSwallows(exc) ==
    IF HandlesAsParseFailure(exc) /\ ~LastAttempt(json_attempt)
    THEN LLMContinue
    ELSE /\ llm_pc' = "returned"
         /\ llm_exc' = None
         /\ UNCHANGED <<json_attempt, llm_ret>>

\* The except clause of the loop body for an exception of type exc raised in
\* attempt json_attempt: a parse failure is retried unless the attempt is the
\* last one, anything else is raised again.
LLMExcept(exc) ==
    IF HandlesAsParseFailure(exc) /\ ~LastAttempt(json_attempt)
    THEN LLMContinue
    ELSE /\ llm_pc' = "raised"
         /\ llm_exc' = exc
         /\ UNCHANGED <<json_attempt, llm_ret>>

\* One pass of the loop in which call_api raises.
LLMTransportRaises ==
    /\ llm_pc = "loop"
    /\ \E out \in TransportOutcomes :
          /\ out.kind = "raise"
          /\ sent' = Append(sent, messages)
          /\ outcomes' = Append(outcomes, out)
          /\ LLMExcept(out.exc)
    /\ UNCHANGED messages
    /\ UNCHANGED <<coreVars, parserVars, ioVars>>

\* One pass of the loop in which the response carries no text: len(content)
\* raises TypeError before the parser is called.
LLMContentIsNull ==
    /\ llm_pc = "loop"
    /\ \E out \in TransportOutcomes :
          /\ out.kind = "content"
          /\ out.text = None
          /\ sent' = Append(sent, messages)
          /\ outcomes' = Append(outcomes, out)
          /\ LLMExcept("TypeError")
    /\ UNCHANGED messages
    /\ UNCHANGED <<coreVars, parserVars, ioVars>>

\* A slip of the loop: a response that parses before the last attempt is not
\* returned and the loop goes on.
LLMParsedGoesOn ==
    /\ llm_pc = "loop"
    /\ \E out \in TransportOutcomes :
          /\ out.kind = "content"
          /\ out.text # None
          /\ Truthy(ExtractJson(out.text))
          /\ sent' = Append(sent, messages)
          /\ outcomes' = Append(outcomes, out)
          /\ IF LastAttempt(json_attempt)
             THEN /\ llm_ret' = ExtractJson(out.text)
                  /\ llm_pc' = "returned"
                  /\ UNCHANGED <<json_attempt, llm_exc>>
             ELSE LLMContinue
    /\ UNCHANGED messages
    /\ UNCHANGED <<coreVars, parserVars, ioVars>>

\* One pass of the loop in which the response parses: the object is returned.
LLMParsed ==
    /\ llm_pc = "loop"
    /\ \E out \in TransportOutcomes :
          /\ out.kind = "content"
          /\ out.text # None
          /\ Truthy(ExtractJson(out.text))
          /\ sent' = Append(sent, messages)
          /\ outcomes' = Append(outcomes, out)
          /\ llm_ret' = ExtractJson(out.text)
    /\ llm_pc' = "returned"
    /\ UNCHANGED <<messages, json_attempt, llm_exc>>
    /\ UNCHANGED <<coreVars, parserVars, ioVars>>

\* A slip of the loop: the retry count handed to _enhance_json_prompt is one
\* too high.
LLMParseFailsCountsFromTwo ==
    /\ llm_pc = "loop"
    /\ \E out \in TransportOutcomes :
          /\ out.kind = "content"
          /\ out.text # None
          /\ ~Truthy(ExtractJson(out.text))
          /\ sent' = Append(sent, messages)
          /\ outcomes' = Append(outcomes, out)
    /\ IF json_attempt < JsonRetryMax - 1
       THEN /\ messages' = EnhanceJsonPrompt(messages, json_attempt + 2)
            /\ LLMContinue
       ELSE /\ LLMExcept("JSONParseException")
            /\ UNCHANGED messages
    /\ UNCHANGED <<coreVars, parserVars, ioVars>>

\* One pass of the loop in which the response does not parse: the prompt is
\* enhanced and the loop continues, or JSONParseException is raised inside the
\* try block of the last attempt and handled by the except clause.
LLMParseFails ==
    /\ llm_pc = "loop"
    /\ \E out \in TransportOutcomes :
          /\ out.kind = "content"
          /\ out.text # None
          /\ ~Truthy(ExtractJson(out.text))
          /\ sent' = Append(sent, messages)
          /\ outcomes' = Append(outcomes, out)
    /\ IF json_attempt < JsonRetryMax - 1
       THEN /\ messages' = EnhanceJsonPrompt(messages, json_attempt + 1)
            /\ LLMContinue
       ELSE /\ LLMExcept("JSONParseException")
            /\ UNCHANGED messages
    /\ UNCHANGED <<coreVars, parserVars, ioVars>>

\* No request is under way.
LLMIdle ==
    /\ llm_pc = "idle"
    /\ json_attempt = 0
    /\ messages = <<>>
    /\ sent = <<>>
    /\ outcomes = <<>>
    /\ llm_ret = None
    /\ llm_exc = None

\* The parser was not called.
Pending == [kind |-> "Pending", value |-> <<>>]
ParserIdle ==
    /\ raw_content = <<>>
    /\ extracted = Pending

\* APIConnector.call_api was not called.
NoException == [kind |-> "none", retries |-> 0]
ConnIdle ==
    [pc |-> "idle", provider |-> "openai", planning |-> FALSE, max_retries |-> 0,
     attempt |-> 0, posts |-> 0, did |-> <<>>, ret |-> "None", exc |-> NoException]

\* APIConfig() as NovelProject.__post_init__ creates it: the two keys are
\* empty strings.
NewAPIConfig == [api_key |-> "", planning_api_key |-> ""]

\* No project file was written.
NoFile == [title |-> "<no file>"]

IOIdle ==
    /\ conn = ConnIdle
    /\ api_config = NewAPIConfig
    /\ project_file = NoFile

LLMInit == LLMIdle /\ ParserIdle /\ IOIdle

(***************************************************************************)
(* The project: chapters, paragraphs and the world building.               *)
(***************************************************************************)
NOT_STARTED == "NOT_STARTED"
IN_PROGRESS == "IN_PROGRESS"
COMPLETED == "COMPLETED"
ERROR == "ERROR"

\* The characters a content string is made of here: a space and a letter.
\* A content string is the sequence of its characters.
ContentChars == {" ", "x"}

\* The full stop the formatter adds, and the characters [。！？」"] that end a
\* sentence for _fix_punctuation.
FullStop == "<fullstop>"
SentenceEnds == {FullStop, "<exclamation>", "<question>", "<rquote>", "<dquote>"}

\* Python's None where a content string is expected ("content": null).
NoneContent == <<"<None>">>

RECURSIVE SeqsUpTo(_, _)
SeqsUpTo(S, n) ==
    IF n = 0 THEN {<<>>}
    ELSE LET shorter == SeqsUpTo(S, n - 1)
         IN shorter \cup {Append(q, e) : q \in shorter, e \in S}

RawContents == SeqsUpTo(ContentChars, MaxContentLen)

RECURSIVE LStrip(_)
LStrip(s) ==
    IF s = <<>> THEN s
    ELSE IF Head(s) = " " THEN LStrip(Tail(s)) ELSE s

RECURSIVE RStrip(_)
RStrip(s) ==
    IF s = <<>> THEN s
    ELSE IF s[Len(s)] = " " THEN RStrip(SubSeq(s, 1, Len(s) - 1)) ELSE s

\* str.strip()
Strip(s) == RStrip(LStrip(s))

\* TextFormatter._fix_punctuation for a text of one line: the line is
\* stripped and a line that ends in a letter gets a full stop.
FixPunctuation(content) ==
    LET line == Strip(content)
    IN IF line # <<>> /\ line[Len(line)] \notin SentenceEnds
          /\ line[Len(line)] = "x"
       THEN Append(line, FullStop)
       ELSE line

\* TextFormatter.format_novel_content. A falsy content (None, "") is handed
\* back as it is. Over ContentChars the quote, paragraph and dialogue
\* substitutions match nothing, so what is left is _fix_punctuation and the
\* final strip.
FormatNovelContent(content) ==
    IF content = NoneContent \/ content = <<>> THEN content
    ELSE Strip(FixPunctuation(content))

\* Paragraph(...) as divide_paragraphs creates it.
NewParagraph(order) ==
    [order |-> order, status |-> NOT_STARTED, content |-> <<>>, word_count |-> 0]

\* Chapter(...) as divide_chapters creates it.
NewChapter == [title |-> "", status |-> NOT_STARTED, paragraphs |-> <<>>]

ChapterIndexes == 0 .. (NumChapters - 1)

\* The place in a list of length n that the Python index i stands for: a
\* negative index counts from the end of the list.
Pos(i, n) == IF i < 0 THEN n + i + 1 ELSE i + 1

\* list[i] raises IndexError
NoSuchItem(i, n) == i >= n \/ i < 0 - n

\* project.chapters[i]
Chap(chs, i) == chs[Pos(i, Len(chs))]
\* chapter.paragraphs[j]
Para(chs, i, j) == Chap(chs, i).paragraphs[Pos(j, Len(Chap(chs, i).paragraphs))]

\* The place of project.chapters[c], and of its paragraphs[p].
ChapPos(chs, c) == Pos(c, Len(chs))
ParaPos(chs, c, p) == Pos(p, Len(Chap(chs, c).paragraphs))

\* The chapter indexes a call can carry that stand for a chapter, and the
\* keys consolidation runs are counted under.
ChapterKeys == (0 - NumChapters) .. (NumChapters - 1)

\* A dict with no entry.
EmptyMap == [n \in {} |-> ""]

\* d[k] = v on a dict
Put(d, k, v) == [x \in (DOMAIN d) \cup {k} |-> IF x = k THEN v ELSE d[x]]

\* WorldBuilding() as NovelProject.__post_init__ creates it.
NewWorld ==
    [characters |-> EmptyMap,
     settings |-> EmptyMap,
     terminology |-> EmptyMap,
     plot_points |-> <<>>,
     current_chapter_plot_points |-> <<>>,
     chapter_plot_summaries |-> [i \in {} |-> 0],
     relationships |-> <<>>,
     style_guide |-> "",
     chapter_notes |-> <<>>]

\* project.outline before an outline was generated
NoOutline == "<empty>"

\* "x in list"
InList(x, l) == \E i \in 1 .. Len(l) : l[i] = x

(***************************************************************************)
(* consolidate_world_after_chapter(sync_mode=False): run_consolidation is  *)
(* started in a thread of its own. A thread is at the start of a sub-pass  *)
(* ("s1", "s2", "s3") or waits for the sub-pass's generation request       *)
(* ("s1_llm", "s2_llm", "s3_llm").                                         *)
(***************************************************************************)
ThreadIds == DOMAIN threads

\* cpp and alias: the list _generate_chapter_plot_summary read from
\* current_chapter_plot_points before its request; alias says that it still
\* is the list the world building holds (an append shows in both), cpp holds
\* its items once it is not. stale: the WorldBuilding object the sub-pass
\* read before its request is no longer project.world_building.
\* reqs: the generation requests the run has issued in its three sub-passes.
\* prompt: the three maps _consolidate_world_only wrote into the prompt of
\* the request it waits for.
NoPrompt ==
    [characters |-> EmptyMap, settings |-> EmptyMap, terminology |-> EmptyMap]

PromptMaps(w) ==
    [characters |-> w.characters, settings |-> w.settings,
     terminology |-> w.terminology]

FreeThread ==
    [ch |-> 0, pc |-> "free", cpp |-> <<>>, alias |-> FALSE, stale |-> FALSE,
     reqs |-> <<0, 0, 0>>, prompt |-> NoPrompt]

FreeIds == {k \in ThreadIds : threads[k].pc = "free"}

LowestFree == CHOOSE k \in FreeIds : \A m \in FreeIds : k <= m

\* threading.Thread(target=run_consolidation, daemon=True).start()
StartThread(c) ==
    /\ FreeIds # {}
    /\ consol_started[c] < MaxStarts
    /\ threads' = [threads EXCEPT ![LowestFree] = [FreeThread EXCEPT !.ch = c, !.pc = "s1"]]
    /\ consol_started' = [consol_started EXCEPT ![c] = @ + 1]

\* The threads after current_chapter_plot_points was bound to a new list: a
\* sub-pass that holds the old list keeps its items.
Detach(ths, old_list) ==
    [k \in DOMAIN ths |->
        IF ths[k].pc = "s1_llm" /\ ths[k].alias
        THEN [ths[k] EXCEPT !.alias = FALSE, !.cpp = old_list]
        ELSE ths[k]]

(***************************************************************************)
(* NovelWriterCore: the stage calls. A stage call is made by a thread (the *)
(* user's task thread or the auto-writing worker); frames[t] is the call   *)
(* thread t is inside. A call is split where it waits for the model: the   *)
(* request is in flight at pc "llm" (the stage's own request) and at pc    *)
(* "ingest" (the request of _update_world_building_from_content).          *)
(***************************************************************************)
Callers == {"user", "auto"}

\* What a stage call gave its caller: nothing yet ("none"), ValueError for an
\* index out of range ("index_error"), IndexError of a list lookup with a
\* negative index below the list, the exception of the generation request, the value
\* returned for a response without the expected key ("no_content"),
\* TypeError of len(None), or the content returned, which is falsy
\* ("returned_empty") or not ("returned_text").
Rets == {"none", "index_error", "IndexError", "llm_error", "no_content", "type_error",
         "returned_empty", "returned_text", "returned"}

IdleFrame(ret) ==
    [op |-> "none", pc |-> "idle", ch |-> 0, p |-> 0, orphan |-> FALSE, ret |-> ret]

\* The responses of the generation request of write_paragraph: the request
\* raises, or returns a dict with or without "content" and "word_count"
\* (word_count -1: no such key).
WriteRaises == [kind |-> "raise", has_content |-> FALSE, content |-> <<>>, word_count |-> -1]
WriteNoContent == [kind |-> "dict", has_content |-> FALSE, content |-> <<>>, word_count |-> -1]
WriteContent(c, wc) == [kind |-> "dict", has_content |-> TRUE, content |-> c, word_count |-> wc]

\* write_paragraph up to its generation request: the two index checks.
BeginWrite(t, c, p) ==
    /\ frames[t].pc = "idle"
    /\ frames' = [frames EXCEPT ![t] =
          IF c >= Len(chapters) THEN IdleFrame("index_error")
          ELSE IF NoSuchItem(c, Len(chapters)) THEN IdleFrame("IndexError")
          ELSE IF p >= Len(Chap(chapters, c).paragraphs) THEN IdleFrame("index_error")
          ELSE IF NoSuchItem(p, Len(Chap(chapters, c).paragraphs))
          THEN IdleFrame("IndexError")
          ELSE [op |-> "write", pc |-> "llm", ch |-> c, p |-> p,
                orphan |-> FALSE, ret |-> "none"]]

\* _ensure_chapter_plot_area: a chapter index without an entry in
\* chapter_plot_summaries resets the accumulation buffer and gets an entry.
EnsureChapterPlotArea(w, c) ==
    IF c \in DOMAIN w.chapter_plot_summaries THEN w
    ELSE [w EXCEPT !.current_chapter_plot_points = <<>>,
                   !.chapter_plot_summaries =
                       Put(@, c, [chapter_title |-> IF c < Len(chapters)
                                                    THEN Chap(chapters, c).title
                                                    ELSE "",
                                  plot_points |-> <<>>, summary |-> ""])]

\* A slip of write_paragraph: the paragraph is marked ERROR when the response
\* has no content.
AfterFailedWriteMarksError(chs, c, p) ==
    [chs EXCEPT ![ChapPos(chs, c)].paragraphs[ParaPos(chs, c, p)].status = ERROR]

\* The chapters after a write_paragraph call that failed in its generation
\* request or got a response without "content": nothing is assigned.
AfterFailedWrite(chs, c, p) == chs

\* write_paragraph from the response of its generation request to the
\* request of the ingestion: a failed request or a response without
\* "content" ends the call; otherwise the formatted content, the word count
\* and the status are stored (in the paragraph object the call looked up
\* before the request, which a divide_paragraphs in between has taken out of
\* the chapter: orphan) and the ingestion begins. len(None) raises after
\* the content was assigned.
WriteResponse(t, Results) ==
    /\ frames[t].op = "write"
    /\ frames[t].pc = "llm"
    /\ \E r \in Results :
          LET c == frames[t].ch
              p == frames[t].p
              formatted == FormatNovelContent(r.content)
          IN IF r.kind = "raise" \/ ~r.has_content
             THEN /\ frames' = [frames EXCEPT ![t] =
                        IdleFrame(IF r.kind = "raise" THEN "llm_error" ELSE "no_content")]
                  /\ chapters' = IF frames[t].orphan THEN chapters
                                 ELSE AfterFailedWrite(chapters, c, p)
                  /\ UNCHANGED <<world, threads>>
             ELSE IF formatted = NoneContent
             THEN /\ frames' = [frames EXCEPT ![t] = IdleFrame("type_error")]
                  /\ chapters' = IF frames[t].orphan THEN chapters
                                 ELSE [chapters EXCEPT
                                         ![ChapPos(chapters, c)].paragraphs[ParaPos(chapters, c, p)].content = formatted]
                  /\ UNCHANGED <<world, threads>>
             ELSE /\ frames' = [frames EXCEPT ![t].pc = "ingest",
                                              ![t].ret = IF formatted = <<>>
                                                         THEN "returned_empty"
                                                         ELSE "returned_text"]
                  /\ chapters' = IF frames[t].orphan THEN chapters
                                 ELSE [chapters EXCEPT
                                         ![ChapPos(chapters, c)].paragraphs[ParaPos(chapters, c, p)] =
                                         [order |-> @.order,
                                          status |-> COMPLETED,
                                          content |-> formatted,
                                          word_count |-> IF r.word_count = -1
                                                         THEN Len(formatted)
                                                         ELSE r.word_count]]
                  /\ world' = EnsureChapterPlotArea(world, c)
                  /\ threads' = IF c \in DOMAIN world.chapter_plot_summaries
                                THEN threads
                                ELSE Detach(threads, world.current_chapter_plot_points)

\* A slip of the ingestion: a proposed entry replaces the one of the same name.
RECURSIVE PureAddOverwriting(_, _)
PureAddOverwriting(d, entries) ==
    IF entries = <<>> THEN d
    ELSE LET e == Head(entries)
         IN PureAddOverwriting(IF e.name # "" THEN Put(d, e.name, e.desc) ELSE d,
                               Tail(entries))

\* The loops over new_characters, new_settings and new_terms: an entry with
\* a name that is not empty and not yet a key is inserted.
RECURSIVE PureAdd(_, _)
PureAdd(d, entries) ==
    IF entries = <<>> THEN d
    ELSE LET e == Head(entries)
         IN PureAdd(IF e.name # "" /\ e.name \notin DOMAIN d
                    THEN Put(d, e.name, e.desc) ELSE d,
                    Tail(entries))

\* The loop over detailed_plot_points on one of the two lists: a plot point
\* that is not empty and not yet in the list is appended.
RECURSIVE AddPlots(_, _)
AddPlots(l, plots) ==
    IF plots = <<>> THEN l
    ELSE LET q == Head(plots)
         IN AddPlots(IF q.text # "" /\ ~InList(q, l) THEN Append(l, q) ELSE l,
                     Tail(plots))

\* The ingestion of a response r into the world building.
Ingest(w, r) ==
    [w EXCEPT !.characters = PureAdd(@, r.new_characters),
              !.settings = PureAdd(@, r.new_settings),
              !.terminology = PureAdd(@, r.new_terms),
              !.plot_points = AddPlots(@, r.detailed_plot_points),
              !.current_chapter_plot_points = AddPlots(@, r.detailed_plot_points)]

AllCompleted(ps) == \A j \in 1 .. Len(ps) : ps[j].status = COMPLETED

\* check_chapter_completion: whether the check finds the chapter complete.
CheckCompletes(chs, c) ==
    /\ c < Len(chs)
    /\ Len(Chap(chs, c).paragraphs) > 0
    /\ AllCompleted(Chap(chs, c).paragraphs)

\* check_chapter_completion: the chapters after the check.
AfterCheck(chs, c) ==
    IF CheckCompletes(chs, c)
    THEN [chs EXCEPT ![ChapPos(chs, c)].status = COMPLETED] ELSE chs

\* A slip of check_chapter_completion: was_already_completed is not looked at.
CheckStartsConsolidationAgain(chs, c, trigger_consolidation) ==
    CheckCompletes(chs, c) /\ trigger_consolidation

\* check_chapter_completion: whether the check calls
\* consolidate_world_after_chapter.
CheckStartsConsolidation(chs, c, trigger_consolidation) ==
    /\ CheckCompletes(chs, c)
    /\ Chap(chs, c).status # COMPLETED
    /\ trigger_consolidation

\* The end of a check_chapter_completion call for chapter c.
CheckAndStart(chs, c, trigger_consolidation) ==
    /\ chapters' = AfterCheck(chs, c)
    /\ IF CheckStartsConsolidation(chs, c, trigger_consolidation)
       THEN StartThread(c)
       ELSE UNCHANGED <<threads, consol_started>>

\* The responses of the ingestion request: it raises, or returns a dict.
IngestRaises ==
    [kind |-> "raise", new_characters |-> <<>>, new_settings |-> <<>>,
     new_terms |-> <<>>, detailed_plot_points |-> <<>>]
IngestDict(chars, sets, terms, plots) ==
    [kind |-> "dict", new_characters |-> chars, new_settings |-> sets,
     new_terms |-> terms, detailed_plot_points |-> plots]

\* A slip of _update_world_building_from_content: a failure of its request
\* is not caught and ends write_paragraph before check_chapter_completion.
IngestResponseRaisesOut(t, Results) ==
    /\ frames[t].op = "write"
    /\ frames[t].pc = "ingest"
    /\ \E r \in Results :
          IF r.kind = "raise"
          THEN /\ UNCHANGED <<world, chapters, threads, consol_started>>
               /\ frames' = [frames EXCEPT ![t] = IdleFrame("llm_error")]
          ELSE /\ world' = Ingest(world, r)
               /\ CheckAndStart(chapters, frames[t].ch, TRUE)
               /\ frames' = [frames EXCEPT ![t] = IdleFrame(frames[t].ret)]

\* write_paragraph from the response of the ingestion request to its return:
\* the entries are added (a failure is logged), check_chapter_completion
\* runs and the formatted content is returned.
IngestResponse(t, Results) ==
    /\ frames[t].op = "write"
    /\ frames[t].pc = "ingest"
    /\ \E r \in Results :
          world' = IF r.kind = "raise" THEN world ELSE Ingest(world, r)
    /\ CheckAndStart(chapters, frames[t].ch, TRUE)
    /\ frames' = [frames EXCEPT ![t] = IdleFrame(frames[t].ret)]

\* The responses of the three consolidation requests.
SummaryRaises == [kind |-> "raise", plot_summary |-> ""]
SummaryDict(text) == [kind |-> "dict", plot_summary |-> text]
MergeRaises == [kind |-> "raise", has |-> {}, characters |-> EmptyMap,
                settings |-> EmptyMap, terminology |-> EmptyMap]
MergeDict(has, chars, sets, terms) ==
    [kind |-> "dict", has |-> has, characters |-> chars,
     settings |-> sets, terminology |-> terms]
ReduceRaises == [kind |-> "raise", consolidated_plot_points |-> <<>>]
ReduceDict(points) == [kind |-> "dict", consolidated_plot_points |-> points]

\* _generate_chapter_plot_summary up to its request: a chapter that has a
\* summary text, or no accumulated plot points, is skipped.
ConsolSummaryBegin(k) ==
    /\ threads[k].pc = "s1"
    /\ LET c == threads[k].ch
           sums == world.chapter_plot_summaries
       IN threads' = [threads EXCEPT ![k] =
             IF \/ c >= Len(chapters)
                \/ (c \in DOMAIN sums /\ sums[c].summary # "")
                \/ world.current_chapter_plot_points = <<>>
             THEN [@ EXCEPT !.pc = "s2"]
             ELSE [@ EXCEPT !.pc = "s1_llm", !.alias = TRUE, !.stale = FALSE,
                            !.reqs[1] = @ + 1]]
    /\ UNCHANGED <<chapters, world, frames, worker, auto_writing, consol_started>>

\* _generate_chapter_plot_summary from the response on: the plot points and
\* the summary text are stored in the chapter's entry and the accumulation
\* buffer is cleared (on the WorldBuilding object read before the request).
ConsolSummaryResponse(k, Results) ==
    /\ threads[k].pc = "s1_llm"
    /\ \E r \in Results :
          LET c == threads[k].ch
              points == IF threads[k].alias THEN world.current_chapter_plot_points
                        ELSE threads[k].cpp
              w1 == [world EXCEPT !.chapter_plot_summaries[c] =
                        [@ EXCEPT !.plot_points = points,
                                  !.summary = r.plot_summary]]
              w2 == IF threads[k].stale THEN w1
                    ELSE [w1 EXCEPT !.current_chapter_plot_points = <<>>]
          IN IF r.kind = "raise" \/ c \notin DOMAIN world.chapter_plot_summaries
             THEN /\ UNCHANGED world
                  /\ threads' = [threads EXCEPT ![k] =
                        [@ EXCEPT !.pc = "s2", !.cpp = <<>>, !.alias = FALSE,
                                  !.stale = FALSE]]
             ELSE /\ world' = w2
                  /\ threads' = [(IF threads[k].stale THEN threads
                                  ELSE Detach(threads, world.current_chapter_plot_points))
                                 EXCEPT ![k] =
                        [threads[k] EXCEPT !.pc = "s2", !.cpp = <<>>,
                                           !.alias = FALSE, !.stale = FALSE]]
    /\ UNCHANGED <<chapters, frames, worker, auto_writing, consol_started>>

\* _consolidate_world_only up to its request.
ConsolMergeBegin(k) ==
    /\ threads[k].pc = "s2"
    /\ threads' = [threads EXCEPT ![k].pc = "s2_llm", ![k].reqs[2] = @ + 1,
                                  ![k].prompt = PromptMaps(world)]
    /\ UNCHANGED <<chapters, world, frames, worker, auto_writing, consol_started>>

\* result.get(key, default) on the response of the merge request
MergeGet(r, key, default) == IF key \in r.has THEN r[key] ELSE default

\* A slip of run_consolidation: the plot points of the merged WorldBuilding
\* stay the empty list _consolidate_world_only created it with.
ConsolidatedWorldWithoutPlots(w, r) ==
    [w EXCEPT !.characters = MergeGet(r, "characters", @),
              !.settings = MergeGet(r, "settings", @),
              !.terminology = MergeGet(r, "terminology", @),
              !.plot_points = <<>>]

\* The WorldBuilding _consolidate_world_only builds from a response, with the
\* fields run_consolidation sets on it before it installs it.
ConsolidatedWorld(w, r) ==
    [characters |-> MergeGet(r, "characters", w.characters),
     settings |-> MergeGet(r, "settings", w.settings),
     terminology |-> MergeGet(r, "terminology", w.terminology),
     plot_points |-> w.plot_points,
     current_chapter_plot_points |-> w.current_chapter_plot_points,
     chapter_plot_summaries |-> w.chapter_plot_summaries,
     relationships |-> w.relationships,
     style_guide |-> w.style_guide,
     chapter_notes |-> w.chapter_notes]

\* _consolidate_world_only from the response on, and the installation of its
\* result by run_consolidation: the three maps are the response's, each
\* defaulting to the current one; the plot points, the buffer and the
\* summaries are taken over; project.world_building is the new object.
ConsolMergeResponse(k, Results) ==
    /\ threads[k].pc = "s2_llm"
    /\ \E r \in Results :
          IF r.kind = "raise"
          THEN /\ UNCHANGED world
               /\ threads' = [threads EXCEPT ![k].pc = "s3",
                                             ![k].prompt = NoPrompt]
          ELSE /\ world' = ConsolidatedWorld(world, r)
               /\ threads' = [j \in DOMAIN threads |->
                    IF j = k THEN [threads[j] EXCEPT !.pc = "s3",
                                                     !.prompt = NoPrompt]
                    ELSE IF threads[j].pc \in {"s1_llm", "s3_llm"}
                    THEN [threads[j] EXCEPT !.stale = TRUE]
                    ELSE threads[j]]
    /\ UNCHANGED <<chapters, frames, worker, auto_writing, consol_started>>

\* A slip of _consolidate_chapter_plot_points: it returns before its request
\* whatever the chapter's entry holds.
ConsolReduceBeginSkips(k) ==
    /\ threads[k].pc = "s3"
    /\ threads' = [threads EXCEPT ![k] = FreeThread]
    /\ UNCHANGED <<chapters, world, frames, worker, auto_writing, consol_started>>

\* _consolidate_chapter_plot_points up to its request: a chapter without an
\* entry, or with an entry without plot points, ends the run.
ConsolReduceBegin(k) ==
    /\ threads[k].pc = "s3"
    /\ LET c == threads[k].ch
           sums == world.chapter_plot_summaries
       IN threads' = [threads EXCEPT ![k] =
             IF c \notin DOMAIN sums \/ sums[c].plot_points = <<>>
             THEN FreeThread
             ELSE [@ EXCEPT !.pc = "s3_llm", !.stale = FALSE, !.reqs[3] = @ + 1]]
    /\ UNCHANGED <<chapters, world, frames, worker, auto_writing, consol_started>>

\* A plot point is [tags, text]: the text after its leading chapter tags. The
\* tag of chapter index c is the number c + 1.
Tagged(c, point) == [point EXCEPT !.tags = <<c + 1>> \o @]

\* plot.startswith(tag of chapter c)
StartsWithTag(c, point) == point.tags # <<>> /\ Head(point.tags) = c + 1

RECURSIVE WithoutChapter(_, _)
WithoutChapter(c, l) ==
    IF l = <<>> THEN l
    ELSE IF StartsWithTag(c, Head(l)) THEN WithoutChapter(c, Tail(l))
    ELSE <<Head(l)>> \o WithoutChapter(c, Tail(l))

\* _consolidate_chapter_plot_points from the response on: the chapter's old
\* tagged entries are dropped from the global list and the reduced points
\* are appended with the chapter's tag. That ends run_consolidation.
ConsolReduceResponse(k, Results) ==
    /\ threads[k].pc = "s3_llm"
    /\ \E r \in Results :
          LET c == threads[k].ch
              tagged == [i \in 1 .. Len(r.consolidated_plot_points) |->
                            Tagged(c, r.consolidated_plot_points[i])]
          IN IF r.kind = "raise" \/ threads[k].stale
             THEN UNCHANGED world
             ELSE world' = [world EXCEPT
                     !.plot_points = WithoutChapter(c, @) \o tagged]
    /\ threads' = [threads EXCEPT ![k] = FreeThread]
    /\ UNCHANGED <<chapters, frames, worker, auto_writing, consol_started>>

(***************************************************************************)
(* divide_paragraphs and generate_chapter_outline.                         *)
(***************************************************************************)
\* The responses of the request of divide_paragraphs: it raises, or returns
\* a dict without "paragraphs" or with a list of n paragraph descriptions.
DivideRaises == [kind |-> "raise", has_paragraphs |-> FALSE, orders |-> <<>>]
DivideNoKey == [kind |-> "dict", has_paragraphs |-> FALSE, orders |-> <<>>]
\* A list of paragraph descriptions with the given "order" values; a
\* description without "order" stands here with the default 0.
DivideOrders(orders) == [kind |-> "dict", has_paragraphs |-> TRUE, orders |-> orders]
\* The n descriptions numbered from 1 that the prompt asks for.
DivideList(n) == DivideOrders([j \in 1 .. n |-> j])
DivideResultsUpTo(m) == {DivideRaises, DivideNoKey} \cup {DivideList(n) : n \in 0 .. m}
DivideResults == DivideResultsUpTo(MaxParas)

\* divide_paragraphs and generate_chapter_outline up to the request: the
\* index check.
BeginStage(t, op, c) ==
    /\ frames[t].pc = "idle"
    /\ frames' = [frames EXCEPT ![t] =
          IF c >= Len(chapters) THEN IdleFrame("index_error")
          ELSE IF NoSuchItem(c, Len(chapters)) THEN IdleFrame("IndexError")
          ELSE [op |-> op, pc |-> "llm", ch |-> c, p |-> 0,
                orphan |-> FALSE, ret |-> "none"]]

\* divide_paragraphs from the response on: a response with "paragraphs"
\* replaces the chapter's paragraph list by new paragraphs. A write_paragraph
\* call that waits for its response holds a paragraph of the old list.
DivideResponse(t, Results) ==
    /\ frames[t].op = "divide"
    /\ frames[t].pc = "llm"
    /\ \E r \in Results :
          LET c == frames[t].ch
          IN IF r.kind = "raise" \/ ~r.has_paragraphs
             THEN /\ frames' = [frames EXCEPT ![t] =
                        IdleFrame(IF r.kind = "raise" THEN "llm_error" ELSE "no_content")]
                  /\ UNCHANGED chapters
             ELSE /\ chapters' = [chapters EXCEPT ![ChapPos(chapters, c)].paragraphs =
                                     [j \in 1 .. Len(r.orders) |->
                                         NewParagraph(r.orders[j])]]
                  /\ frames' = [u \in Callers |->
                        IF u = t THEN IdleFrame("returned")
                        ELSE IF frames[u].op = "write" /\ frames[u].pc = "llm"
                                /\ ChapPos(chapters, frames[u].ch) = ChapPos(chapters, c)
                        THEN [frames[u] EXCEPT !.orphan = TRUE]
                        ELSE frames[u]]

\* generate_chapter_outline from the response on: the outline is stored in
\* the chapter (the model keeps no outline).
OutlineResponse(t) ==
    /\ frames[t].op = "outline"
    /\ frames[t].pc = "llm"
    /\ \E r \in {"raise", "no_outline", "outline"} :
          frames' = [frames EXCEPT ![t] =
              IdleFrame(CASE r = "raise" -> "llm_error"
                          [] r = "no_outline" -> "no_content"
                          [] OTHER -> "returned")]

(***************************************************************************)
(* The user's task thread: the stage calls made from the GUI's handlers.   *)
(***************************************************************************)
\* The indexes a handler passes: those of the project and one past them.
CallChapters == 0 .. NumChapters
CallParas == 0 .. MaxParas

WriteResultsPlain ==
    {WriteRaises, WriteNoContent, WriteContent(<<>>, -1), WriteContent(<<"x">>, -1)}

\* The plain responses and "content": null.
WriteResultsWithNull == WriteResultsPlain \cup {WriteContent(NoneContent, -1)}

WriteResultsRich ==
    {WriteRaises, WriteNoContent}
    \cup {WriteContent(c, wc) : c \in RawContents \cup {NoneContent}, wc \in {-1, 7}}

Entry(name, desc) == [name |-> name, desc |-> desc]
Plot(tags, text) == [tags |-> tags, text |-> text]

IngestResultsPlain ==
    {IngestRaises, IngestDict(<<>>, <<>>, <<>>, <<>>),
     IngestDict(<<>>, <<>>, <<>>, <<Plot(<<>>, "a")>>)}

CharacterLists ==
    {<<>>, <<Entry("wang", "d1")>>, <<Entry("wang", "d2")>>, <<Entry("", "d1")>>,
     <<Entry("li", "d1"), Entry("li", "d2")>>}
SettingLists == {<<>>, <<Entry("city", "d1")>>, <<Entry("city", "d2")>>}
TermLists == {<<>>, <<Entry("sword", "d1")>>, <<Entry("sword", "d2")>>}
PlotLists == {<<>>, <<Plot(<<>>, "a")>>, <<Plot(<<>>, "")>>}

IngestResultsRich ==
    {IngestRaises}
    \cup {IngestDict(cs, ss, ts, ps) :
            cs \in CharacterLists, ss \in SettingLists, ts \in TermLists, ps \in PlotLists}

SummaryResults == {SummaryRaises, SummaryDict(""), SummaryDict("s")}
MergeResultsPlain == {MergeRaises, MergeDict({}, EmptyMap, EmptyMap, EmptyMap)}
ReduceResults == {ReduceRaises, ReduceDict(<<>>), ReduceDict(<<Plot(<<>>, "r")>>)}

\* write_current_paragraph: the task calls write_paragraph.
UserWrite ==
    /\ \E c \in CallChapters, p \in CallParas : BeginWrite("user", c, p)
    /\ UNCHANGED <<chapters, world, worker, auto_writing, threads, consol_started>>
    /\ UNCHANGED <<serviceVars, outline>>

UserWriteResponse(Results) ==
    /\ WriteResponse("user", Results)
    /\ UNCHANGED <<worker, auto_writing, consol_started>>
    /\ UNCHANGED <<serviceVars, outline>>

UserIngestResponse(Results) ==
    /\ IngestResponse("user", Results)
    /\ UNCHANGED <<worker, auto_writing>>
    /\ UNCHANGED <<serviceVars, outline>>

\* on_chapter_selected and the tree's handlers: the task calls divide_paragraphs.
UserDivide ==
    /\ \E c \in CallChapters : BeginStage("user", "divide", c)
    /\ UNCHANGED <<chapters, world, worker, auto_writing, threads, consol_started>>
    /\ UNCHANGED <<serviceVars, outline>>

UserDivideResponse ==
    /\ DivideResponse("user", DivideResults)
    /\ UNCHANGED <<world, worker, auto_writing, threads, consol_started>>
    /\ UNCHANGED <<serviceVars, outline>>

\* The task calls generate_chapter_outline.
UserOutline ==
    /\ \E c \in CallChapters : BeginStage("user", "outline", c)
    /\ UNCHANGED <<chapters, world, worker, auto_writing, threads, consol_started>>
    /\ UNCHANGED <<serviceVars, outline>>

UserOutlineResponse ==
    /\ OutlineResponse("user")
    /\ UNCHANGED <<chapters, world, worker, auto_writing, threads, consol_started>>
    /\ UNCHANGED <<serviceVars, outline>>

\* A call of check_chapter_completion with either value of trigger_consolidation.
UserCheck ==
    /\ frames["user"].pc = "idle"
    /\ \E c \in CallChapters, trigger_consolidation \in BOOLEAN :
          CheckAndStart(chapters, c, trigger_consolidation)
    /\ UNCHANGED <<world, frames, worker, auto_writing>>
    /\ UNCHANGED <<serviceVars, outline>>

\* One step of a consolidation thread.
ConsolStep(SummaryRs, MergeRs, ReduceRs) ==
    /\ \E k \in ThreadIds :
          \/ ConsolSummaryBegin(k)
          \/ ConsolSummaryResponse(k, SummaryRs)
          \/ ConsolMergeBegin(k)
          \/ ConsolMergeResponse(k, MergeRs)
          \/ ConsolReduceBegin(k)
          \/ ConsolReduceResponse(k, ReduceRs)
    /\ UNCHANGED <<serviceVars, outline>>

WorkerOff == [pc |-> "off", ci |-> 0, pi |-> 0, retry_attempt |-> 0]

CoreInit ==
    /\ chapters = [i \in 1 .. NumChapters |-> NewChapter]
    /\ world = NewWorld
    /\ outline = NoOutline
    /\ frames = [t \in Callers |-> IdleFrame("none")]
    /\ worker = WorkerOff
    /\ auto_writing = FALSE
    /\ threads = [k \in 1 .. MaxThreads |-> FreeThread]
    /\ consol_started = [c \in ChapterKeys |-> 0]

Init == LLMInit /\ CoreInit

(***************************************************************************)
(* The generation client alone: one request of call_llm_with_thinking.     *)
(***************************************************************************)
NextLLM ==
    \/ LLMRequest
    \/ LLMTransportRaises
    \/ LLMContentIsNull
    \/ LLMParsed
    \/ LLMParseFails

SpecLLM == Init /\ [][NextLLM]_vars

\* A transport call that gave a response the parser found no object in.
Unparseable(out) ==
    out.kind = "content" /\ out.text # None /\ ~Truthy(ExtractJson(out.text))

\* A transport call that gave a response the parser found an object in.
Parseable(out) ==
    out.kind = "content" /\ out.text # None /\ Truthy(ExtractJson(out.text))

EscalationSuffixes == {JsonEmphasis(k) : k \in 1 .. JsonRetryMax}

\* C8: the conversation of every retry has the two messages of the attempt
\* before it: the same system message, and the user message of that attempt
\* with one escalation suffix appended; so it begins with the original prompt
\* and holds a suffix the first attempt's message does not hold.
RetryAppendsOneSuffix ==
    \A k \in 2 .. Len(sent) :
        /\ Len(sent[k]) = 2
        /\ Len(sent[k - 1]) = 2
        /\ sent[k][1] = sent[k - 1][1]
        /\ sent[k][1].role = "system"
        /\ sent[k][2].role = "user"
        /\ \E suffix \in EscalationSuffixes :
              /\ sent[k][2].content = Append(sent[k - 1][2].content, suffix)
              /\ \A j \in 1 .. Len(sent[1][2].content) :
                    sent[1][2].content[j] # suffix
        /\ sent[k][2].content[1] = sent[1][2].content[1]
        /\ sent[1][2].content[1] \in Prompts

\* The third attempt of a request was sent.
ThirdConversationSent == Len(sent) = 3

(***************************************************************************)
(* NovelWriterGUI: toggle_auto_writing and auto_writing_worker. The worker *)
(* is at the head of its chapter loop ("chapter"), inside or just back     *)
(* from generate_chapter_outline ("outline"), divide_paragraphs ("divide") *)
(* or write_paragraph ("write"), at the head of its paragraph loop         *)
(* ("para") or of its retry loop ("retry"), or at the status update that   *)
(* ends a chapter ("chapter_end"). One worker thread is modelled.          *)
(***************************************************************************)
\* toggle_auto_writing while auto_writing is off: the worker thread starts.
StartAutoWriting ==
    /\ ~auto_writing
    /\ worker.pc = "off"
    /\ Len(chapters) > 0
    /\ auto_writing' = TRUE
    /\ worker' = [WorkerOff EXCEPT !.pc = "chapter"]
    /\ UNCHANGED <<chapters, world, frames, threads, consol_started>>
    /\ UNCHANGED <<serviceVars, outline>>

\* toggle_auto_writing while auto_writing is on.
StopAutoWriting ==
    /\ auto_writing
    /\ auto_writing' = FALSE
    /\ UNCHANGED <<chapters, world, frames, worker, threads, consol_started>>
    /\ UNCHANGED <<serviceVars, outline>>

\* The head of the chapter loop: the loop ends after the last chapter or when
\* auto_writing is off; a chapter without paragraphs is marked IN_PROGRESS and
\* prepared, starting with generate_chapter_outline.
WorkerChapterHead ==
    /\ worker.pc = "chapter"
    /\ IF worker.ci >= Len(chapters) \/ ~auto_writing
       THEN /\ worker' = WorkerOff
            /\ auto_writing' = FALSE
            /\ UNCHANGED <<chapters, frames>>
       ELSE IF Chap(chapters, worker.ci).paragraphs = <<>>
       THEN /\ chapters' = [chapters EXCEPT ![worker.ci + 1].status = IN_PROGRESS]
            /\ BeginStage("auto", "outline", worker.ci)
            /\ worker' = [worker EXCEPT !.pc = "outline"]
            /\ UNCHANGED auto_writing
       ELSE /\ worker' = [worker EXCEPT !.pc = "para", !.pi = 0]
            /\ UNCHANGED <<chapters, frames, auto_writing>>
    /\ UNCHANGED <<world, threads, consol_started>>
    /\ UNCHANGED <<serviceVars, outline>>

AutoOutlineResponse ==
    /\ OutlineResponse("auto")
    /\ UNCHANGED <<chapters, world, worker, auto_writing, threads, consol_started>>
    /\ UNCHANGED <<serviceVars, outline>>

\* The exceptions a stage call raises.
Raised(ret) == ret \in {"index_error", "IndexError", "llm_error", "type_error"}

\* Back from generate_chapter_outline: an exception marks the chapter ERROR
\* and goes to the next chapter; otherwise divide_paragraphs is called.
WorkerAfterOutline ==
    /\ worker.pc = "outline"
    /\ frames["auto"].pc = "idle"
    /\ IF Raised(frames["auto"].ret)
       THEN /\ chapters' = [chapters EXCEPT ![worker.ci + 1].status = ERROR]
            /\ worker' = [worker EXCEPT !.pc = "chapter", !.ci = @ + 1]
            /\ UNCHANGED frames
       ELSE /\ BeginStage("auto", "divide", worker.ci)
            /\ worker' = [worker EXCEPT !.pc = "divide"]
            /\ UNCHANGED chapters
    /\ UNCHANGED <<world, auto_writing, threads, consol_started>>
    /\ UNCHANGED <<serviceVars, outline>>

AutoDivideResponse ==
    /\ DivideResponse("auto", DivideResultsUpTo(MaxAutoParas))
    /\ UNCHANGED <<world, worker, auto_writing, threads, consol_started>>
    /\ UNCHANGED <<serviceVars, outline>>

\* Back from divide_paragraphs: an exception marks the chapter ERROR and goes
\* to the next chapter; otherwise the paragraph loop begins.
WorkerAfterDivide ==
    /\ worker.pc = "divide"
    /\ frames["auto"].pc = "idle"
    /\ IF Raised(frames["auto"].ret)
       THEN /\ chapters' = [chapters EXCEPT ![worker.ci + 1].status = ERROR]
            /\ worker' = [worker EXCEPT !.pc = "chapter", !.ci = @ + 1]
       ELSE /\ worker' = [worker EXCEPT !.pc = "para", !.pi = 0]
            /\ UNCHANGED chapters
    /\ UNCHANGED <<world, frames, auto_writing, threads, consol_started>>
    /\ UNCHANGED <<serviceVars, outline>>

\* The head of the paragraph loop: the loop ends after the last paragraph or
\* when auto_writing is off; a COMPLETED paragraph is skipped; any other is
\* marked IN_PROGRESS and the retry loop begins.
WorkerParaHead ==
    /\ worker.pc = "para"
    /\ IF worker.pi >= Len(Chap(chapters, worker.ci).paragraphs) \/ ~auto_writing
       THEN /\ worker' = [worker EXCEPT !.pc = "chapter_end"]
            /\ UNCHANGED chapters
       ELSE IF Para(chapters, worker.ci, worker.pi).status = COMPLETED
       THEN /\ worker' = [worker EXCEPT !.pi = @ + 1]
            /\ UNCHANGED chapters
       ELSE /\ chapters' = [chapters EXCEPT
                  ![worker.ci + 1].paragraphs[worker.pi + 1].status = IN_PROGRESS]
            /\ worker' = [worker EXCEPT !.pc = "retry", !.retry_attempt = 0]
    /\ UNCHANGED <<world, frames, auto_writing, threads, consol_started>>
    /\ UNCHANGED <<serviceVars, outline>>

\* The head of the retry loop: it ends after paragraph_retry_max attempts or
\* when auto_writing is off; otherwise write_paragraph is called.
WorkerRetryHead ==
    /\ worker.pc = "retry"
    /\ IF worker.retry_attempt >= ParagraphRetryMax \/ ~auto_writing
       THEN /\ worker' = [worker EXCEPT !.pc = "para", !.pi = @ + 1,
                                        !.retry_attempt = 0]
            /\ UNCHANGED frames
       ELSE /\ BeginWrite("auto", worker.ci, worker.pi)
            /\ worker' = [worker EXCEPT !.pc = "write"]
    /\ UNCHANGED <<chapters, world, auto_writing, threads, consol_started>>
    /\ UNCHANGED <<serviceVars, outline>>

AutoWriteResponse(Results) ==
    /\ WriteResponse("auto", Results)
    /\ UNCHANGED <<worker, auto_writing, consol_started>>
    /\ UNCHANGED <<serviceVars, outline>>

AutoIngestResponse(Results) ==
    /\ IngestResponse("auto", Results)
    /\ UNCHANGED <<worker, auto_writing>>
    /\ UNCHANGED <<serviceVars, outline>>

\* Back from write_paragraph: a truthy content ends the retry loop; a falsy
\* one or an exception marks the paragraph ERROR in the last attempt.
WorkerAfterWrite ==
    /\ worker.pc = "write"
    /\ frames["auto"].pc = "idle"
    /\ IF frames["auto"].ret = "returned_text"
       THEN /\ worker' = [worker EXCEPT !.pc = "para", !.pi = @ + 1,
                                        !.retry_attempt = 0]
            /\ UNCHANGED chapters
       ELSE /\ chapters' =
                  IF worker.retry_attempt = ParagraphRetryMax - 1
                  THEN [chapters EXCEPT
                          ![worker.ci + 1].paragraphs[worker.pi + 1].status = ERROR]
                  ELSE chapters
            /\ worker' = [worker EXCEPT !.pc = "retry", !.retry_attempt = @ + 1]
    /\ UNCHANGED <<world, frames, auto_writing, threads, consol_started>>
    /\ UNCHANGED <<serviceVars, outline>>

\* The chapter status the worker sets after the paragraph loop.
ChapterEndStatus(ps) ==
    IF \A j \in 1 .. Len(ps) : ps[j].status = COMPLETED THEN COMPLETED
    ELSE IF \E j \in 1 .. Len(ps) : ps[j].status = ERROR THEN ERROR
    ELSE IN_PROGRESS

\* The end of the chapter loop's body: the status update.
WorkerChapterEnd ==
    /\ worker.pc = "chapter_end"
    /\ chapters' = [chapters EXCEPT ![worker.ci + 1].status =
                       ChapterEndStatus(Chap(chapters, worker.ci).paragraphs)]
    /\ worker' = [worker EXCEPT !.pc = "chapter", !.ci = @ + 1, !.pi = 0]
    /\ UNCHANGED <<world, frames, auto_writing, threads, consol_started>>
    /\ UNCHANGED <<serviceVars, outline>>

(***************************************************************************)
(* The stage calls of the user's task thread and the consolidation         *)
(* threads they start.                                                     *)
(***************************************************************************)
Next ==
    \/ UserDivide
    \/ UserDivideResponse
    \/ UserWrite
    \/ UserWriteResponse(WriteResultsPlain)
    \/ UserIngestResponse(IngestResultsPlain)
    \/ UserCheck
    \/ ConsolStep(SummaryResults, MergeResultsPlain, ReduceResults)

Spec == Init /\ [][Next]_vars

(***************************************************************************)
(* The auto-writing worker, started and stopped by the user, and the       *)
(* consolidation threads its write_paragraph calls start.                  *)
(***************************************************************************)
NextAuto ==
    \/ StartAutoWriting
    \/ StopAutoWriting
    \/ WorkerChapterHead
    \/ AutoOutlineResponse
    \/ WorkerAfterOutline
    \/ AutoDivideResponse
    \/ WorkerAfterDivide
    \/ WorkerParaHead
    \/ WorkerRetryHead
    \/ AutoWriteResponse(WriteResultsPlain)
    \/ AutoIngestResponse(IngestResultsPlain)
    \/ WorkerAfterWrite
    \/ WorkerChapterEnd
    \/ ConsolStep({SummaryDict("s")}, {MergeDict({}, EmptyMap, EmptyMap, EmptyMap)},
                  {ReduceDict(<<Plot(<<>>, "r")>>)})

SpecAuto == Init /\ [][NextAuto]_vars

\* C1: every chapter whose status is Completed has a paragraph list that is
\* not empty and of which every paragraph is Completed.
CompletedChapterIsWritten ==
    \A c \in ChapterIndexes :
        Chap(chapters, c).status = COMPLETED
           => /\ Len(Chap(chapters, c).paragraphs) > 0
              /\ AllCompleted(Chap(chapters, c).paragraphs)

\* C3: while a consolidation run of a chapter has not finished its three
\* sub-passes, no stage call for the chapter after it is under way.
ConsolidationEndsBeforeNextChapter ==
    \A k \in ThreadIds, t \in Callers :
        (threads[k].pc # "free" /\ frames[t].pc \in {"llm", "ingest"})
           => frames[t].ch # threads[k].ch + 1

(***************************************************************************)
(* write_paragraph and check_chapter_completion alone, called one after    *)
(* the other on chapters that are divided into paragraphs, with the        *)
(* consolidation threads they start.                                       *)
(***************************************************************************)
\* The chapters as divide_paragraphs leaves them.
DividedChapter(n) == [NewChapter EXCEPT !.paragraphs = [j \in 1 .. n |-> NewParagraph(j)]]

InitWC ==
    /\ LLMInit
    /\ chapters \in [1 .. NumChapters -> {DividedChapter(n) : n \in 0 .. MaxParas}]
    /\ world = NewWorld
    /\ outline = NoOutline
    /\ frames = [t \in Callers |-> IdleFrame("none")]
    /\ worker = WorkerOff
    /\ auto_writing = FALSE
    /\ threads = [k \in 1 .. MaxThreads |-> FreeThread]
    /\ consol_started = [c \in ChapterKeys |-> 0]

NextWC ==
    \/ UserWrite
    \/ UserWriteResponse(WriteResultsWithNull)
    \/ UserIngestResponse(IngestResultsPlain)
    \/ UserCheck
    \/ ConsolStep({SummaryDict("s")}, MergeResultsPlain, {ReduceDict(<<Plot(<<>>, "r")>>)})

SpecWC == InitWC /\ [][NextWC]_vars

\* C2: a chapter's consolidation is started at most once; it has been
\* started exactly when the chapter is Completed, and, outside the
\* write_paragraph call that completes the last paragraph, exactly when the
\* chapter has paragraphs and all of them are Completed.
ConsolidationStartedOncePerChapter ==
    \A c \in ChapterIndexes :
        LET ch == Chap(chapters, c)
            completing == /\ frames["user"].op = "write"
                          /\ frames["user"].pc = "ingest"
                          /\ frames["user"].ch = c
        IN /\ consol_started[c] <= 1
           /\ consol_started[c] = 1 <=> ch.status = COMPLETED
           /\ ~completing =>
                 (consol_started[c] = 1
                    <=> (Len(ch.paragraphs) > 0 /\ AllCompleted(ch.paragraphs)))

\* A paragraph of a Completed chapter of several paragraphs is written again,
\* after the chapter's consolidation run has ended, and the completion check
\* of that call is next.
CompletedChapterCheckedAgain ==
    \E c \in ChapterIndexes :
        /\ consol_started[c] = 1
        /\ Chap(chapters, c).status = COMPLETED
        /\ Len(Chap(chapters, c).paragraphs) >= 2
        /\ \A k \in ThreadIds : threads[k].pc = "free"
        /\ frames["user"].op = "write"
        /\ frames["user"].pc = "ingest"
        /\ frames["user"].ch = c

(***************************************************************************)
(* write_paragraph on the paragraphs of the first chapter, with every      *)
(* response of the writing request and of the ingestion request.           *)
(***************************************************************************)
InitKB ==
    /\ LLMInit
    /\ \E n \in 1 .. MaxParas :
          chapters = [i \in 1 .. NumChapters |->
                         IF i = 1 THEN DividedChapter(n) ELSE NewChapter]
    /\ world = NewWorld
    /\ outline = NoOutline
    /\ frames = [t \in Callers |-> IdleFrame("none")]
    /\ worker = WorkerOff
    /\ auto_writing = FALSE
    /\ threads = [k \in 1 .. MaxThreads |-> FreeThread]
    /\ consol_started = [c \in ChapterKeys |-> 0]

NextKB ==
    \/ UserWrite
    \/ UserWriteResponse(WriteResultsRich)
    \/ UserIngestResponse(IngestResultsRich)

SpecKB == InitKB /\ [][NextKB]_vars

\* Every key of the dict old is a key of the dict new, with the same value.
Keeps(old, new) == \A k \in DOMAIN old : k \in DOMAIN new /\ new[k] = old[k]

\* C4: the ingestion step of write_paragraph keeps every key of characters,
\* settings and terminology with its value; what it changes are names that
\* were not present.
IngestionOnlyAdds ==
    [][(frames["user"].pc = "ingest" /\ frames'["user"].pc = "idle")
          => /\ Keeps(world.characters, world'.characters)
             /\ Keeps(world.settings, world'.settings)
             /\ Keeps(world.terminology, world'.terminology)]_vars

\* The response that proposes the character "li" twice was ingested: the
\* first proposal was inserted, the second found the name present.
RepeatedNameDiscarded ==
    /\ "li" \in DOMAIN world.characters
    /\ world.characters["li"] = "d1"
    /\ frames["user"].pc = "idle"

\* C9: a write_paragraph call that ends because its generation request
\* raised, or because the response has no "content", leaves the chapters
\* (status, paragraphs with content, word count and status) and the world
\* building as they were, and the caller free to call again.
FailedWriteChangesNothing ==
    [][(/\ frames["user"].op = "write"
        /\ frames["user"].pc = "llm"
        /\ frames'["user"].ret \in {"llm_error", "no_content"})
          => /\ chapters' = chapters
             /\ world' = world
             /\ frames'["user"].pc = "idle"]_vars

\* A write_paragraph call has failed on the one paragraph of the first
\* chapter, which an earlier call had written and ingested.
FailedRewriteOfWrittenParagraph ==
    /\ frames["user"].pc = "idle"
    /\ frames["user"].ret \in {"llm_error", "no_content"}
    /\ Len(Chap(chapters, 0).paragraphs) = 1
    /\ Para(chapters, 0, 0).status = COMPLETED
    /\ Para(chapters, 0, 0).content # <<>>
    /\ world.characters # EmptyMap

\* C10: a step that makes a paragraph Completed, or changes a Completed
\* paragraph, leaves it with a content that is not empty.
CompletedOnlyWithContent ==
    [][\A c \in ChapterIndexes :
          \A j \in 1 .. Len(chapters[c + 1].paragraphs) :
              (/\ j <= Len(chapters'[c + 1].paragraphs)
               /\ chapters'[c + 1].paragraphs[j] # chapters[c + 1].paragraphs[j]
               /\ chapters'[c + 1].paragraphs[j].status = COMPLETED)
                 => chapters'[c + 1].paragraphs[j].content # <<>>]_vars

(***************************************************************************)
(* The stage calls with any integer index near the project's ranges:       *)
(* indexes below zero, in range, and past the end.                         *)
(***************************************************************************)
AnyChapterIndexes == (0 - NumChapters - 1) .. NumChapters
AnyParagraphIndexes == (0 - MaxParas - 1) .. MaxParas

AnyIndexOutline ==
    /\ \E c \in AnyChapterIndexes : BeginStage("user", "outline", c)
    /\ UNCHANGED <<chapters, world, worker, auto_writing, threads, consol_started>>
    /\ UNCHANGED <<serviceVars, outline>>

AnyIndexDivide ==
    /\ \E c \in AnyChapterIndexes : BeginStage("user", "divide", c)
    /\ UNCHANGED <<chapters, world, worker, auto_writing, threads, consol_started>>
    /\ UNCHANGED <<serviceVars, outline>>

AnyIndexWrite ==
    /\ \E c \in AnyChapterIndexes, p \in AnyParagraphIndexes : BeginWrite("user", c, p)
    /\ UNCHANGED <<chapters, world, worker, auto_writing, threads, consol_started>>
    /\ UNCHANGED <<serviceVars, outline>>

NextIdx ==
    \/ AnyIndexOutline
    \/ UserOutlineResponse
    \/ AnyIndexDivide
    \/ UserDivideResponse
    \/ AnyIndexWrite
    \/ UserWriteResponse(WriteResultsPlain)
    \/ UserIngestResponse({IngestDict(<<>>, <<>>, <<>>, <<>>)})

SpecIdx == InitWC /\ [][NextIdx]_vars

\* C11: a stage call that is past its index checks (its generation request
\* is under way) carries a chapter index, and for write_paragraph a
\* paragraph index, within 0 .. length - 1.
OutOfRangeCallIsRejected ==
    \A t \in Callers :
        frames[t].pc \in {"llm", "ingest"}
           => /\ frames[t].ch \in 0 .. (Len(chapters) - 1)
              /\ frames[t].op = "write" /\ ~frames[t].orphan
                    => frames[t].p \in 0 .. (Len(Chap(chapters, frames[t].ch).paragraphs) - 1)

\* C12: the step that ends a divide_paragraphs call leaves a chapter that had
\* paragraphs with paragraphs: a response with an empty collection or
\* without the key changes nothing, any other gives a list that is not empty.
DivideNeverEmptiesChapter ==
    [][(/\ frames["user"].op = "divide"
        /\ frames["user"].pc = "llm"
        /\ frames'["user"].pc = "idle"
        /\ Chap(chapters, frames["user"].ch).paragraphs # <<>>)
          => Chap(chapters', frames["user"].ch).paragraphs # <<>>]_vars

(***************************************************************************)
(* A project of one chapter with two paragraphs: the paragraphs are        *)
(* written one after the other, each call with a response that has a       *)
(* content, and the consolidation run of the chapter follows.              *)
(***************************************************************************)
InitOne ==
    /\ LLMInit
    /\ chapters = <<DividedChapter(2)>>
    /\ world = NewWorld
    /\ outline = NoOutline
    /\ frames = [t \in Callers |-> IdleFrame("none")]
    /\ worker = WorkerOff
    /\ auto_writing = FALSE
    /\ threads = [k \in 1 .. MaxThreads |-> FreeThread]
    /\ consol_started = [c \in ChapterKeys |-> 0]

\* write_current_paragraph on the first paragraph that is not started.
WriteNextParagraph ==
    /\ \E p \in 0 .. (Len(Chap(chapters, 0).paragraphs) - 1) :
          /\ Para(chapters, 0, p).status = NOT_STARTED
          /\ \A q \in 0 .. (p - 1) : Para(chapters, 0, q).status # NOT_STARTED
          /\ BeginWrite("user", 0, p)
    /\ UNCHANGED <<chapters, world, worker, auto_writing, threads, consol_started>>
    /\ UNCHANGED <<serviceVars, outline>>

NextOne ==
    \/ WriteNextParagraph
    \/ UserWriteResponse({WriteContent(<<"x">>, wc) : wc \in {-1, 7}})
    \/ UserIngestResponse(IngestResultsRich)
    \/ ConsolStep(SummaryResults, MergeResultsPlain, ReduceResults)

SpecOne == InitOne /\ [][NextOne]_vars

\* The step that ends the consolidation run of thread k: the return of
\* _consolidate_chapter_plot_points, before or after its request.
RunEnds(k) == threads[k].pc \in {"s3", "s3_llm"} /\ threads'[k].pc = "free"

\* The plot-summary pass of thread k's run has stored the chapter's plot
\* points: its request returned a result.
SummaryStored(k) ==
    /\ threads[k].ch \in DOMAIN world.chapter_plot_summaries
    /\ world.chapter_plot_summaries[threads[k].ch].plot_points # <<>>

FailedSummaryLeavesOthersRunning ==
    [][\A k \in ThreadIds :
          (RunEnds(k) /\ threads[k].reqs[1] = 1 /\ ~SummaryStored(k))
             => (threads[k].reqs[2] = 1 /\ threads[k].reqs[3] = 1)]_vars

(***************************************************************************)
(* generate_outline: the overall outline is requested, stored in           *)
(* project.outline and seeds the world building.                           *)
(***************************************************************************)
\* The settings key that holds the outline's world_setting (the source's key
\* is the Chinese for "overall world view").
WorldViewKey == "overall_world_view"

\* The responses of the outline request: it raises, or returns a dict, with
\* or without "main_characters" and "world_setting" (title: any other key,
\* "" for a dict without keys).
OutlineRaises ==
    [kind |-> "raise", title |-> "", has_characters |-> FALSE,
     main_characters |-> <<>>, has_setting |-> FALSE, world_setting |-> ""]
OutlineDict(title, has_chars, chars, has_setting, setting) ==
    [kind |-> "dict", title |-> title, has_characters |-> has_chars,
     main_characters |-> chars, has_setting |-> has_setting,
     world_setting |-> setting]

\* "if result": a dict with a key.
OutlineTruthy(r) == r.title # "" \/ r.has_characters \/ r.has_setting

\* The loop over main_characters: a character with a name and a description
\* is assigned to characters[name].
RECURSIVE SeedCharacters(_, _)
SeedCharacters(d, chars) ==
    IF chars = <<>> THEN d
    ELSE LET e == Head(chars)
         IN SeedCharacters(IF e.name # "" /\ e.desc # ""
                           THEN Put(d, e.name, e.desc) ELSE d,
                           Tail(chars))

\* _update_world_building_from_outline
UpdateWorldBuildingFromOutline(w, r) ==
    [w EXCEPT !.characters = IF r.has_characters
                             THEN SeedCharacters(@, r.main_characters) ELSE @,
              !.settings = IF r.has_setting
                           THEN Put(@, WorldViewKey, r.world_setting) ELSE @]

\* generate_outline up to its request.
BeginGenerateOutline(t) ==
    /\ frames[t].pc = "idle"
    /\ frames' = [frames EXCEPT ![t] =
          [op |-> "generate_outline", pc |-> "llm", ch |-> 0, p |-> 0,
           orphan |-> FALSE, ret |-> "none"]]

\* generate_outline from the response on.
GenerateOutlineResponse(t, Results) ==
    /\ frames[t].op = "generate_outline"
    /\ frames[t].pc = "llm"
    /\ \E r \in Results :
          IF r.kind = "raise"
          THEN /\ frames' = [frames EXCEPT ![t] = IdleFrame("llm_error")]
               /\ UNCHANGED <<outline, world>>
          ELSE IF ~OutlineTruthy(r)
          THEN /\ frames' = [frames EXCEPT ![t] = IdleFrame("returned_empty")]
               /\ UNCHANGED <<outline, world>>
          ELSE /\ outline' = r
               /\ world' = UpdateWorldBuildingFromOutline(world, r)
               /\ frames' = [frames EXCEPT ![t] = IdleFrame("returned")]

\* NovelWriterGUI.generate_outline: the task calls generate_outline.
UserGenerateOutline ==
    /\ BeginGenerateOutline("user")
    /\ UNCHANGED <<chapters, world, outline, worker, auto_writing, threads,
                   consol_started>>
    /\ UNCHANGED serviceVars

OutlineCharacterLists ==
    {<<>>, <<Entry("wang", "d1")>>, <<Entry("wang", "d2")>>, <<Entry("wang", "")>>,
     <<Entry("", "d1")>>, <<Entry("li", "d1"), Entry("li", "d2")>>}

OutlineResults ==
    {OutlineRaises, OutlineDict("", FALSE, <<>>, FALSE, ""),
     OutlineDict("t", FALSE, <<>>, FALSE, "")}
    \cup {OutlineDict("t", TRUE, cs, FALSE, "") : cs \in OutlineCharacterLists}
    \cup {OutlineDict("t", hc, <<Entry("li", "d3")>>, TRUE, ws) :
             hc \in BOOLEAN, ws \in {"w1", "w2"}}

UserGenerateOutlineResponse ==
    /\ GenerateOutlineResponse("user", OutlineResults)
    /\ UNCHANGED <<chapters, worker, auto_writing, threads, consol_started>>
    /\ UNCHANGED serviceVars

\* The entries the ingestion of a paragraph may have added before the
\* outline is generated again.
IngestResultsForOutline ==
    {IngestRaises,
     IngestDict(<<Entry("wang", "d0")>>, <<>>, <<>>, <<>>),
     IngestDict(<<>>, <<Entry(WorldViewKey, "w0")>>, <<>>, <<>>),
     IngestDict(<<Entry("zhao", "d0")>>, <<Entry("city", "d1")>>, <<>>, <<>>)}

NextOutline ==
    \/ UserGenerateOutline
    \/ UserGenerateOutlineResponse
    \/ UserWrite
    \/ UserWriteResponse({WriteContent(<<"x">>, -1)})
    \/ UserIngestResponse(IngestResultsForOutline)

SpecOutline == InitKB /\ [][NextOutline]_vars

\* The step in which a generate_outline call stores an outline.
OutlineStored ==
    /\ frames["user"].op = "generate_outline"
    /\ frames'["user"].ret = "returned"

\* C15: generate_outline seeds the world building by pure add: a character
\* name or settings key that exists when the outline is generated or
\* generated again keeps its previous description.
OutlineSeedingOnlyAdds ==
    [][OutlineStored => /\ Keeps(world.characters, world'.characters)
                        /\ Keeps(world.settings, world'.settings)]_vars

(***************************************************************************)
(* JSONParser.extract_json_from_content. A text is a sequence of tokens,   *)
(* each standing for a piece of text:                                      *)
(*   "{" "}" ","  the character itself                                     *)
(*   "k"   a member with a scalar value, such as "a":1                     *)
(*   "n"   a key and its colon, such as "b": - a value follows             *)
(*   "a"   an array without braces, such as [1]                            *)
(*   "d"   a member whose value is an array nested deeper than the         *)
(*         interpreter's recursion limit                                   *)
(*   "w"   prose without braces and backticks                              *)
(*   "J"   the fence opener with the json tag; "F" the bare fence          *)
(* White space between tokens is not written: every pattern of the parser  *)
(* allows it where it can stand. A parsed object is written as the token   *)
(* sequence of its canonical text.                                         *)
(***************************************************************************)
Tokens == {"{", "}", ",", "k", "n", "a", "d", "w", "J", "F"}
Braces == {"{", "}"}
Fences == {"J", "F"}

\* The least index i >= from with s[i] \in S, 0 if there is none.
FirstIndex(s, from, S) ==
    LET hits == {i \in from .. Len(s) : s[i] \in S}
    IN IF hits = {} THEN 0 ELSE CHOOSE i \in hits : \A j \in hits : i <= j

\* The greatest index i with s[i] \in S, 0 if there is none.
LastIndex(s, S) ==
    LET hits == {i \in 1 .. Len(s) : s[i] \in S}
    IN IF hits = {} THEN 0 ELSE CHOOSE i \in hits : \A j \in hits : i >= j

\* json.loads on an object whose "{" is s[i]: st is "ok" with pos the index
\* after its "}", "JSONDecodeError", or "RecursionError".
RECURSIVE ParseObject(_, _)
RECURSIVE ParseMembers(_, _)
RECURSIVE AfterMember(_, _)
ParseObject(s, i) ==
    IF i + 1 > Len(s) THEN [st |-> "JSONDecodeError", pos |-> 0]
    ELSE IF s[i + 1] = "}" THEN [st |-> "ok", pos |-> i + 2]
    ELSE ParseMembers(s, i + 1)
ParseMembers(s, i) ==
    IF i > Len(s) THEN [st |-> "JSONDecodeError", pos |-> 0]
    ELSE CASE s[i] = "k" -> AfterMember(s, i + 1)
           [] s[i] = "d" -> [st |-> "RecursionError", pos |-> 0]
           [] s[i] = "n" ->
                IF i + 1 > Len(s) THEN [st |-> "JSONDecodeError", pos |-> 0]
                ELSE IF s[i + 1] = "a" THEN AfterMember(s, i + 2)
                ELSE IF s[i + 1] = "{"
                THEN LET r == ParseObject(s, i + 1)
                     IN IF r.st = "ok" THEN AfterMember(s, r.pos) ELSE r
                ELSE [st |-> "JSONDecodeError", pos |-> 0]
           [] OTHER -> [st |-> "JSONDecodeError", pos |-> 0]
AfterMember(s, i) ==
    IF i > Len(s) THEN [st |-> "JSONDecodeError", pos |-> 0]
    ELSE CASE s[i] = "," -> ParseMembers(s, i + 1)
           [] s[i] = "}" -> [st |-> "ok", pos |-> i + 1]
           [] OTHER -> [st |-> "JSONDecodeError", pos |-> 0]

\* json.loads(s): a dict, a list, or the exception raised.
Loads(s) ==
    IF s = <<>> THEN [kind |-> "JSONDecodeError", value |-> <<>>]
    ELSE IF s = <<"a">> THEN [kind |-> "list", value |-> s]
    ELSE IF s[1] = "{"
    THEN LET r == ParseObject(s, 1)
         IN IF r.st = "ok"
            THEN IF r.pos = Len(s) + 1 THEN [kind |-> "dict", value |-> s]
                 ELSE [kind |-> "JSONDecodeError", value |-> <<>>]
            ELSE [kind |-> r.st, value |-> <<>>]
    ELSE [kind |-> "JSONDecodeError", value |-> <<>>]

\* "isinstance(result, dict) and result"
NonEmptyDict(r) == r.kind = "dict" /\ r.value # <<"{", "}">>

\* _clean_json_string: from the first "{" on, up to the last "}".
CleanJsonString(json_str) ==
    LET start_brace == FirstIndex(json_str, 1, {"{"})
        from_brace == IF start_brace # 0
                      THEN SubSeq(json_str, start_brace, Len(json_str))
                      ELSE json_str
        end_brace == LastIndex(from_brace, {"}"})
    IN IF end_brace # 0 THEN SubSeq(from_brace, 1, end_brace) ELSE from_brace

\* re.findall of the first pattern from index pos on: the json fence, the
\* shortest text up to the next three backticks.
RECURSIVE FindJsonFence(_, _)
FindJsonFence(s, pos) ==
    LET i == FirstIndex(s, pos, {"J"})
        j == IF i = 0 THEN 0 ELSE FirstIndex(s, i + 1, Fences)
    IN IF j = 0 THEN <<>>
       ELSE <<SubSeq(s, i + 1, j - 1)>> \o FindJsonFence(s, j + 1)

\* The second pattern matched at the fence s[i]: the index of the "}" that
\* ends the group, 0 if the pattern does not match there.
FenceEnd(s, i) ==
    IF i + 1 > Len(s) \/ s[i + 1] # "{" THEN 0
    ELSE LET ends == {j \in (i + 2) .. (Len(s) - 1) :
                         s[j] = "}" /\ s[j + 1] \in Fences}
         IN IF ends = {} THEN 0 ELSE CHOOSE j \in ends : \A e \in ends : j <= e

\* re.findall of the second pattern from index pos on.
RECURSIVE FindFence(_, _)
FindFence(s, pos) ==
    LET i == FirstIndex(s, pos, {"F"})
    IN IF i = 0 THEN <<>>
       ELSE LET j == FenceEnd(s, i)
            IN IF j = 0 THEN FindFence(s, i + 1)
               ELSE <<SubSeq(s, i + 1, j)>> \o FindFence(s, j + 2)

\* The third pattern after its opening brace: text without braces, any
\* number of groups "{ text without braces }" each followed by text without
\* braces, and the closing brace. The index of the closing brace, 0 if the
\* pattern does not match.
RECURSIVE ScanBare(_, _, _)
ScanBare(s, p, in_group) ==
    IF p > Len(s) THEN 0
    ELSE IF s[p] \notin Braces THEN ScanBare(s, p + 1, in_group)
    ELSE IF in_group
    THEN IF s[p] = "}" THEN ScanBare(s, p + 1, FALSE) ELSE 0
    ELSE IF s[p] = "}" THEN p ELSE ScanBare(s, p + 1, TRUE)

\* re.findall of the third pattern from index pos on.
RECURSIVE FindBare(_, _)
FindBare(s, pos) ==
    LET i == FirstIndex(s, pos, {"{"})
    IN IF i = 0 THEN <<>>
       ELSE LET e == ScanBare(s, i + 1, FALSE)
            IN IF e = 0 THEN FindBare(s, i + 1)
               ELSE <<SubSeq(s, i, e)>> \o FindBare(s, e + 1)

NoneResult == [kind |-> "None", value |-> <<>>]
Returned(v) == [kind |-> "returned", value |-> v]
Raises(exc) == [kind |-> exc, value |-> <<>>]

\* The index at which the braces from s[1] = "{" on are balanced, 0 if they
\* never are.
RECURSIVE BalancedAt(_, _, _)
BalancedAt(s, i, brace_count) ==
    IF i > Len(s) THEN 0
    ELSE LET c == CASE s[i] = "{" -> brace_count + 1
                    [] s[i] = "}" -> brace_count - 1
                    [] OTHER -> brace_count
         IN IF s[i] = "}" /\ c = 0 THEN i ELSE BalancedAt(s, i + 1, c)

\* _attempt_json_repair
AttemptJsonRepair(s) ==
    LET json_start == FirstIndex(s, 1, {"{"})
    IN IF json_start = 0 THEN NoneResult
       ELSE LET json_part == SubSeq(s, json_start, Len(s))
                valid_end == BalancedAt(json_part, 1, 0)
            IN IF valid_end = 0 THEN NoneResult
               ELSE LET r == Loads(SubSeq(json_part, 1, valid_end))
                    IN CASE r.kind = "JSONDecodeError" -> NoneResult
                         [] r.kind = "RecursionError" -> Raises(r.kind)
                         [] OTHER -> Returned(r.value)

\* The loop over the matches of the three patterns, in order, and the repair
\* after them.
RECURSIVE TryMatches(_, _)
TryMatches(matches, s) ==
    IF matches = <<>> THEN AttemptJsonRepair(s)
    ELSE LET r == Loads(CleanJsonString(Head(matches)))
         IN IF NonEmptyDict(r) THEN Returned(r.value)
            ELSE IF r.kind = "RecursionError" THEN Raises(r.kind)
            ELSE TryMatches(Tail(matches), s)

ExtractJsonFromContent(s) ==
    TryMatches(FindJsonFence(s, 1) \o FindFence(s, 1) \o FindBare(s, 1), s)

\* The texts handed to the parser: every text of at most MaxTextLen tokens,
\* and the objects of depth MaxDepth and less, whole or cut short, bare or
\* in a fence, with or without prose around them.
MaxTextLen == 3
MaxDepth == 3

ShortTexts == SeqsUpTo(Tokens, MaxTextLen)

RECURSIVE ObjectsOfDepth(_)
ObjectsOfDepth(depth) ==
    IF depth = 1 THEN {<<"{", "k", "}">>, <<"{", "k", ",", "k", "}">>}
    ELSE LET inner == ObjectsOfDepth(depth - 1)
         IN inner
            \cup {<<"{", "n">> \o o \o <<"}">> : o \in inner}
            \cup {<<"{", "k", ",", "n">> \o o \o <<"}">> : o \in inner}
            \cup {<<"{", "n">> \o o \o <<",", "k", "}">> : o \in inner}
            \cup {<<"{", "n", "{", "k", "}", ",", "n">> \o o \o <<"}">> : o \in inner}

Prefixes(s) == {SubSeq(s, 1, n) : n \in 1 .. Len(s)}

Bodies ==
    LET objects == ObjectsOfDepth(MaxDepth)
    IN UNION {Prefixes(o) : o \in objects}
       \cup {<<"{", "}">>, <<"{", "n", "{", "}", "}">>, <<"{", "d", "}">>,
             <<"{", "k", ",", "d", "}">>, <<"{", "n", "a", "}">>}

Wrappings == {<<<<>>, <<>>>>, <<<<"J">>, <<"F">>>>, <<<<"F">>, <<"F">>>>}
Proses == {<<>>, <<"w">>}

WrappedTexts ==
    {pre \o wr[1] \o b \o wr[2] \o post :
        pre \in Proses, wr \in Wrappings, b \in Bodies, post \in Proses}

Texts == ShortTexts \cup WrappedTexts

\* One call of extract_json_from_content on a text.
InitJP ==
    /\ LLMIdle
    /\ IOIdle
    /\ CoreInit
    /\ raw_content \in Texts
    /\ extracted = Pending

ExtractCall ==
    /\ extracted = Pending
    /\ extracted' = ExtractJsonFromContent(raw_content)
    /\ UNCHANGED <<raw_content, llmVars, coreVars, ioVars>>

NextJP == ExtractCall

SpecJP == InitJP /\ [][NextJP]_vars

\* The well-formed objects with at least one key among the bodies.
WellFormedObjects == {b \in Bodies : NonEmptyDict(Loads(b))}

\* The text s is the object o in some wrapping, with or without prose.
HoldsOnly(s, o) ==
    \E pre \in Proses, wr \in Wrappings, post \in Proses :
        s = pre \o wr[1] \o o \o wr[2] \o post

\* C16: for a text that holds exactly one well-formed object with at least
\* one key (bare amid prose, in a json fence or in a generic fence, at any
\* nesting depth), the call returns the parse of the whole object.
WholeObjectIsReturned ==
    extracted # Pending
        => \A o \in WellFormedObjects :
              HoldsOnly(raw_content, o) => extracted = Returned(o)

\* The first opening brace of s is never balanced by a closing brace.
Truncated(s) ==
    LET i == FirstIndex(s, 1, {"{"})
    IN i # 0 /\ BalancedAt(SubSeq(s, i, Len(s)), 1, 0) = 0

\* C17: for a text whose object span is cut short, the opening brace never
\* balanced by a closing brace, the call returns None.
TruncatedObjectGivesNone ==
    (extracted # Pending /\ Truncated(raw_content)) => extracted = NoneResult

\* C18: the call raises for no text, and returns None for a text without an
\* opening brace.
ExtractNeverRaises ==
    /\ extracted.kind \in {"Pending", "None", "returned"}
    /\ (extracted # Pending /\ FirstIndex(raw_content, 1, {"{"}) = 0)
          => extracted = NoneResult

\* C19: a value the call returns, other than None, is an object with at
\* least one key, never an array or a scalar.
ReturnedValueIsNonEmptyObject ==
    extracted.kind = "returned" => NonEmptyDict(Loads(extracted.value))

(***************************************************************************)
(* The GUI on a project of one chapter with two paragraphs: auto-writing   *)
(* is started and stopped while the user writes paragraphs and regenerates *)
(* the chapter outline from the task thread.                               *)
(***************************************************************************)
NextGui ==
    \/ StartAutoWriting
    \/ StopAutoWriting
    \/ WorkerChapterHead
    \/ WorkerParaHead
    \/ WorkerRetryHead
    \/ AutoWriteResponse(WriteResultsPlain)
    \/ AutoIngestResponse({IngestDict(<<>>, <<>>, <<>>, <<Plot(<<>>, "a")>>)})
    \/ WorkerAfterWrite
    \/ WorkerChapterEnd
    \/ UserWrite
    \/ UserWriteResponse(WriteResultsPlain)
    \/ UserIngestResponse({IngestDict(<<>>, <<>>, <<>>, <<Plot(<<>>, "a")>>)})
    \/ UserOutline
    \/ UserOutlineResponse
    \/ ConsolStep({SummaryDict("s")}, {MergeDict({}, EmptyMap, EmptyMap, EmptyMap)},
                  {ReduceDict(<<Plot(<<>>, "r")>>)})

SpecGui == InitOne /\ [][NextGui]_vars

\* The generation requests that wait for their response: those of the stage
\* calls and those of the consolidation threads.
CallsInFlight ==
    Cardinality({t \in Callers : frames[t].pc \in {"llm", "ingest"}})
    + Cardinality({k \in ThreadIds : threads[k].pc \in {"s1_llm", "s2_llm", "s3_llm"}})

\* C20: whatever the user starts, stops, writes or regenerates, at most one
\* generation request of the project waits for its response at a time; no
\* two paragraphs are being written at once.
AtMostOneGenerationCall == CallsInFlight <= 1

(***************************************************************************)
(* The threads that write the world building.                              *)
(***************************************************************************)
\* A stage call of the pipeline is in progress.
StageCallInProgress == \E t \in Callers : frames[t].pc # "idle"

\* C21: while a stage call of the pipeline is in progress, the world
\* building is written (or replaced) only by a step of a thread that is
\* inside a stage call, never by another thread.
WorldWrittenByStageThreadOnly ==
    [][(StageCallInProgress /\ world' # world)
          => \E t \in Callers : frames'[t] # frames[t]]_vars

(***************************************************************************)
(* The auto-writing worker alone on a project of one chapter with two      *)
(* paragraphs, the user starting and stopping it.                          *)
(***************************************************************************)
\* toggle_auto_writing while auto_writing is off and the worker started
\* before has not ended: auto_writing is set again and that worker reads it
\* at its next test. (The handler also starts one more worker thread; the
\* steps of that thread are left out.)
RestartAutoWriting ==
    /\ ~auto_writing
    /\ worker.pc # "off"
    /\ Len(chapters) > 0
    /\ auto_writing' = TRUE
    /\ UNCHANGED <<chapters, world, frames, worker, threads, consol_started>>
    /\ UNCHANGED <<serviceVars, outline>>

WorkerSteps ==
    \/ WorkerChapterHead
    \/ WorkerParaHead
    \/ WorkerRetryHead
    \/ AutoWriteResponse(WriteResultsWithNull)
    \/ AutoIngestResponse(IngestResultsPlain)
    \/ WorkerAfterWrite
    \/ WorkerChapterEnd
    \/ ConsolStep(SummaryResults, MergeResultsPlain, ReduceResults)

NextWorker ==
    \/ StartAutoWriting
    \/ StopAutoWriting
    \/ WorkerSteps

SpecWorker == InitOne /\ [][NextWorker]_vars

NextWorkerRestarted ==
    \/ StartAutoWriting
    \/ StopAutoWriting
    \/ RestartAutoWriting
    \/ WorkerSteps

SpecWorkerRestarted == InitOne /\ [][NextWorkerRestarted]_vars

Terminal(status) == status \in {COMPLETED, ERROR}

\* The step in which the worker's write_paragraph call begins.
WorkerStartsWrite ==
    /\ frames["auto"].pc = "idle"
    /\ frames'["auto"].op = "write"
    /\ frames'["auto"].pc = "llm"

\* Every paragraph of the chapter before the one the worker's call is for
\* is Completed or Error.
EarlierParagraphsTerminal ==
    \A q \in 0 .. (frames'["auto"].p - 1) :
        Terminal(Para(chapters, frames'["auto"].ch, q).status)

\* C22: the worker starts its paragraph writes in ascending order: when it
\* starts writing a paragraph, every paragraph before it in the chapter is
\* Completed or Error.
ParagraphsWrittenInAscendingOrder ==
    [][WorkerStartsWrite => EarlierParagraphsTerminal]_vars

\* auto_writing was set to False by the user while the worker runs, and has
\* not been set again.
Cancelled == ~auto_writing /\ worker.pc # "off"

\* The step in which the worker begins a stage call.
WorkerStartsCall ==
    /\ frames["auto"].pc = "idle"
    /\ frames'["auto"].pc = "llm"

\* The step in which a consolidation sub-pass issues its generation request.
SubPassIssuesRequest ==
    \E k \in ThreadIds :
        /\ threads[k].pc \in {"s1", "s2", "s3"}
        /\ threads'[k].pc \in {"s1_llm", "s2_llm", "s3_llm"}

\* C23: once the user has cancelled and not re-enabled auto-writing, no
\* chapter preparation, paragraph write or consolidation sub-pass is
\* started; only the call in flight runs to its end.
NothingStartedAfterCancel ==
    [][Cancelled => ~(WorkerStartsCall \/ SubPassIssuesRequest)]_vars

(***************************************************************************)
(* Consolidation runs that overlap: a project of one chapter with one      *)
(* paragraph; the chapter's completion starts a run and the user starts    *)
(* runs with manual_consolidate_world.                                     *)
(***************************************************************************)
\* The consolidation runs that may be under way at once.
MaxRuns == 2

\* manual_consolidate_world on the chapter selected in the combo box.
ManualConsolidateWorld ==
    /\ \E c \in 0 .. (Len(chapters) - 1) : StartThread(c)
    /\ UNCHANGED <<chapters, world, frames, worker, auto_writing>>
    /\ UNCHANGED <<serviceVars, outline>>

InitRuns ==
    /\ LLMInit
    /\ chapters = <<DividedChapter(1)>>
    /\ world = NewWorld
    /\ outline = NoOutline
    /\ frames = [t \in Callers |-> IdleFrame("none")]
    /\ worker = WorkerOff
    /\ auto_writing = FALSE
    /\ threads = [k \in 1 .. MaxRuns |-> FreeThread]
    /\ consol_started = [c \in ChapterKeys |-> 0]

\* Plot points the ingestion proposes: plain, and with a text that begins
\* with the tag of the first or of the second chapter.
IngestResultsTagged ==
    {IngestDict(<<>>, <<>>, <<>>, <<Plot(<<>>, "a")>>),
     IngestDict(<<>>, <<>>, <<>>, <<Plot(<<2>>, "b"), Plot(<<>>, "a"), Plot(<<1>>, "c")>>)}

\* The responses of the reduction request that have points.
ReducedLists == {<<Plot(<<>>, "r")>>, <<Plot(<<>>, "q"), Plot(<<>>, "r")>>}

NextRuns ==
    \/ WriteNextParagraph
    \/ UserWriteResponse({WriteContent(<<"x">>, -1)})
    \/ UserIngestResponse(IngestResultsTagged)
    \/ ManualConsolidateWorld
    \/ ConsolStep({SummaryRaises, SummaryDict("s")},
                  {MergeRaises, MergeDict({}, EmptyMap, EmptyMap, EmptyMap)},
                  {ReduceDict(l) : l \in ReducedLists})

SpecRuns == InitRuns /\ [][NextRuns]_vars

\* The entries of the list l that begin with the tag of chapter c, in order.
RECURSIVE OfChapter(_, _)
OfChapter(c, l) ==
    IF l = <<>> THEN l
    ELSE IF StartsWithTag(c, Head(l)) THEN <<Head(l)>> \o OfChapter(c, Tail(l))
    ELSE OfChapter(c, Tail(l))

\* The step in which the reduction request of run k returns its points.
ReductionReturns(k) == threads[k].pc = "s3_llm" /\ threads'[k].pc = "free"

\* C24: after the plot-point reduction of a chapter succeeded, the entries
\* of plot_points with that chapter's tag are the reduced points in the
\* order returned, and the other entries are the ones from before in their
\* order, however many runs there are for the chapter.
ReducedPointsReplaceTagged ==
    [][\A k \in ThreadIds :
          ReductionReturns(k)
             => LET c == threads[k].ch
                IN /\ WithoutChapter(c, world'.plot_points)
                         = WithoutChapter(c, world.plot_points)
                   /\ \E l \in ReducedLists :
                         OfChapter(c, world'.plot_points)
                            = [i \in 1 .. Len(l) |-> Tagged(c, l[i])]]_vars


(***************************************************************************)
(* The world-entry merge on a project that was loaded with relationships,  *)
(* a style guide and chapter notes: the paragraph of the only chapter is   *)
(* written, its ingestion adds entries to the three maps, and the merge    *)
(* request returns what a model can return.                                *)
(***************************************************************************)
LoadedWorld ==
    [NewWorld EXCEPT !.relationships = <<"wang-li">>,
                     !.style_guide = "plain",
                     !.chapter_notes = <<"note">>]

InitMerge ==
    /\ LLMInit
    /\ chapters = <<DividedChapter(1)>>
    /\ world = LoadedWorld
    /\ outline = NoOutline
    /\ frames = [t \in Callers |-> IdleFrame("none")]
    /\ worker = WorkerOff
    /\ auto_writing = FALSE
    /\ threads = [k \in 1 .. MaxRuns |-> FreeThread]
    /\ consol_started = [c \in ChapterKeys |-> 0]

IngestResultsEntries ==
    {IngestRaises,
     IngestDict(<<Entry("wang", "d1"), Entry("li", "d2")>>,
                <<Entry("city", "d1")>>, <<Entry("sword", "d1")>>,
                <<Plot(<<>>, "a")>>)}

AllThreeMaps == {"characters", "settings", "terminology"}
OneEntry(name, desc) == Put(EmptyMap, name, desc)

\* The responses of the merge request: a failure, a change log alone, two
\* entries merged into one, an entry no map had, a description no entry had.
MergeResultsRich ==
    {MergeRaises,
     MergeDict({}, EmptyMap, EmptyMap, EmptyMap),
     MergeDict(AllThreeMaps, OneEntry("wang", "d1"), OneEntry("city", "d1"),
               OneEntry("sword", "d1")),
     MergeDict({"characters"},
               Put(Put(OneEntry("wang", "d1"), "li", "d2"), "zhao", "d3"),
               EmptyMap, EmptyMap),
     MergeDict({"terminology"}, EmptyMap, EmptyMap, OneEntry("sword", "d3"))}

NextMerge ==
    \/ WriteNextParagraph
    \/ UserWriteResponse({WriteContent(<<"x">>, -1)})
    \/ UserIngestResponse(IngestResultsEntries)
    \/ ManualConsolidateWorld
    \/ ConsolStep({SummaryRaises, SummaryDict("s")}, MergeResultsRich,
                  {ReduceRaises, ReduceDict(<<Plot(<<>>, "r")>>)})

SpecMerge == InitMerge /\ [][NextMerge]_vars

\* The step in which the merge request of run k returns.
MergeReturns(k) == threads[k].pc = "s2_llm" /\ threads'[k].pc = "s3"

\* The values of a dict.
Values(d) == {d[n] : n \in DOMAIN d}

\* The dict new has no more entries than the dict old, and its keys and its
\* descriptions are keys and descriptions of old.
ReducedFrom(old, new) ==
    /\ Cardinality(DOMAIN new) <= Cardinality(DOMAIN old)
    /\ DOMAIN new \subseteq DOMAIN old
    /\ Values(new) \subseteq Values(old)

\* C25: after the world-entry merge, each of characters, settings and
\* terminology has no more entries than before it, and every key and every
\* description of the result is one of an entry from before, whatever the
\* model responded.
MergeOnlyReduces ==
    [][\A k \in ThreadIds :
          MergeReturns(k)
             => /\ ReducedFrom(world.characters, world'.characters)
                /\ ReducedFrom(world.settings, world'.settings)
                /\ ReducedFrom(world.terminology, world'.terminology)]_vars


\* The fields of a WorldBuilding the world-entry merge is not about.
OtherFields(w) ==
    <<w.plot_points, w.chapter_plot_summaries, w.current_chapter_plot_points,
      w.relationships, w.style_guide, w.chapter_notes>>

ThreeMaps(w) == <<w.characters, w.settings, w.terminology>>

\* C30: the world-entry merge leaves plot_points, chapter_plot_summaries,
\* current_chapter_plot_points, relationships, style_guide and chapter_notes
\* as they were, whether its request succeeds or fails; when the request
\* fails, characters, settings and terminology are as they were as well.
MergeLeavesOtherFields ==
    [][\A k \in ThreadIds :
          /\ MergeReturns(k) => OtherFields(world') = OtherFields(world)
          /\ ConsolMergeResponse(k, {MergeRaises})
                => ThreeMaps(world') = ThreeMaps(world)]_vars

\* A merge replaced the three maps (li, whom only a merge removes, is gone)
\* on a world with plot points, a chapter summary, relationships, a style
\* guide and chapter notes.
MergedWithPlotsPresent ==
    /\ DOMAIN world.characters = {"wang"}
    /\ world.plot_points # <<>>
    /\ \E c \in DOMAIN world.chapter_plot_summaries :
          world.chapter_plot_summaries[c].summary # ""
    /\ world.relationships # <<>>
    /\ world.style_guide # ""
    /\ world.chapter_notes # <<>>


(***************************************************************************)
(* Saving the project. The project file holds the data save_project built; *)
(* SerializationHelper.prepare_project_for_save builds the same data with  *)
(* every enum converted. The fields of NovelProject that no state variable *)
(* stands for have the values NovelProject() gives them.                   *)
(***************************************************************************)
ApiKeys == {"", "sk-writing", "sk-planning"}
ApiConfigs == [api_key : ApiKeys, planning_api_key : ApiKeys]

\* load_api_config: the fields of project.api_config are set from
\* api_config.json.
LoadAPIConfig ==
    /\ api_config' \in ApiConfigs
    /\ UNCHANGED <<coreVars, llmVars, parserVars, conn, project_file>>

\* CreationStatus.value, in ASCII for the four Chinese words.
StatusValue(status) ==
    CASE status = NOT_STARTED -> "weikaishi"
      [] status = IN_PROGRESS -> "jinxingzhong"
      [] status = COMPLETED -> "yiwancheng"
      [] status = ERROR -> "cuowu"

\* asdict(chapter) with the status of the chapter and of every paragraph
\* replaced by its value.
ChapterDict(chapter) ==
    [title |-> chapter.title,
     status |-> StatusValue(chapter.status),
     paragraphs |-> [j \in 1 .. Len(chapter.paragraphs) |->
                        [chapter.paragraphs[j] EXCEPT !.status = StatusValue(@)]]]

\* The NovelProject with the API configuration cfg.
Project(cfg) ==
    [title |-> "", theme |-> "", outline |-> outline,
     outline_additional_prompt |-> "", chapters_additional_prompt |-> "",
     current_context |-> "", chapters |-> chapters, world_building |-> world,
     api_config |-> cfg, global_config |-> "GlobalWritingConfig()"]

\* A slip of the serialization: the whole NovelProject is converted, the
\* api_config field with it.
PrepareProjectWithConfig(project) ==
    [project EXCEPT !.chapters = [i \in 1 .. Len(project.chapters) |->
                                    ChapterDict(project.chapters[i])]]

\* The dict prepare_project_for_save returns, which is the project_data of
\* save_project: nine keys, none of them api_config.
PrepareProjectForSave(project) ==
    [title |-> project.title,
     theme |-> project.theme,
     outline |-> project.outline,
     outline_additional_prompt |-> project.outline_additional_prompt,
     chapters_additional_prompt |-> project.chapters_additional_prompt,
     current_context |-> project.current_context,
     chapters |-> [i \in 1 .. Len(project.chapters) |-> ChapterDict(project.chapters[i])],
     world_building |-> project.world_building,
     global_config |-> project.global_config]

\* The position of the first paragraph of the list ps that has the order o.
FirstWithOrder(ps, o) ==
    CHOOSE i \in 1 .. Len(ps) :
       ps[i].order = o /\ \A j \in 1 .. (i - 1) : ps[j].order # o

\* The chapter_dict of save_project: the status written for a paragraph is
\* the one of the first paragraph of the chapter that has its order.
ChapterDictByOrder(chapter) ==
    LET ps == chapter.paragraphs
    IN [title |-> chapter.title,
        status |-> StatusValue(chapter.status),
        paragraphs |-> [j \in 1 .. Len(ps) |->
           [ps[j] EXCEPT !.status =
               StatusValue(ps[FirstWithOrder(ps, ps[j].order)].status)]]]

\* The project_data of save_project: the nine keys of
\* prepare_project_for_save, the chapters converted by save_project itself.
SaveProjectData(project) ==
    [PrepareProjectForSave(project) EXCEPT
        !.chapters = [i \in 1 .. Len(project.chapters) |->
                         ChapterDictByOrder(project.chapters[i])]]

\* save_project with a file name chosen: the data is written to the file.
SaveProject ==
    /\ project_file' = SaveProjectData(Project(api_config))
    /\ UNCHANGED <<coreVars, llmVars, parserVars, conn, api_config>>

NextSave ==
    \/ WriteNextParagraph
    \/ UserWriteResponse({WriteRaises, WriteContent(<<"x">>, -1)})
    \/ UserIngestResponse(IngestResultsEntries)
    \/ LoadAPIConfig
    \/ SaveProject

SpecSave == InitMerge /\ [][NextSave]_vars

\* The step in which a project file is written.
FileWritten == project_file' # project_file

\* C26: the data written to the project file has no api_config key, and it
\* is the data that would be written with any other API configuration: no
\* key of the two models and no other field of the configuration reaches it.
SavedDataHasNoApiConfig ==
    [][FileWritten
         => /\ "api_config" \notin DOMAIN project_file'
            /\ \A cfg \in ApiConfigs :
                  /\ project_file' = SaveProjectData(Project(cfg))
                  /\ "api_config" \notin DOMAIN PrepareProjectForSave(Project(cfg))
                  /\ PrepareProjectForSave(Project(cfg))
                        = PrepareProjectForSave(Project(api_config))]_vars

\* A project with both keys set and a written paragraph was saved.
SavedWithKeysSet ==
    /\ project_file # NoFile
    /\ api_config.api_key # ""
    /\ api_config.planning_api_key # ""
    /\ Len(project_file.chapters) > 0
    /\ project_file.chapters[1].paragraphs[1].status = StatusValue(COMPLETED)
    /\ project_file.world_building.characters # EmptyMap


(***************************************************************************)
(* APIConnector.call_api. conn.did lists what the attempts of the call     *)
(* did, conn.posts counts the calls of requests.post.                      *)
(***************************************************************************)
MaxRetries == 3

Providers == {"openai", "anthropic", "custom"}
OtherProvider == "other"

\* What one of _call_openai_api, _call_anthropic_api and _call_custom_api
\* does after requests.post was called: it returns the dict built from a 200
\* response, requests.post raises a RequestException, the response is not a
\* 200 one (APIException), or the body of a 200 response lacks a key.
PostOutcomes == {"ok", "request_exception", "non200", "bad_shape"}

\* The APIException of line 56 and the one of lines 59 and 51.
RetriesExhausted(n) == [kind |-> "retries_exhausted", retries |-> n]
CallError == [kind |-> "call_error", retries |-> 0]

\* The provider call_api uses: the planning provider if the caller asks for
\* the planning model and the configuration has one.
SelectProvider(use_planning_model, config) ==
    IF use_planning_model /\ config.use_planning_model
    THEN config.planning_provider ELSE config.provider

\* call_api up to the first pass of its loop; with max_retries 0 the loop
\* has no pass and the call returns None.
CallApi ==
    /\ conn.pc # "loop"
    /\ \E use_planning_model \in BOOLEAN,
          config \in [provider : Providers \cup {OtherProvider},
                      planning_provider : Providers,
                      use_planning_model : BOOLEAN,
                      max_retries : 0 .. MaxRetries] :
          conn' = [ConnIdle EXCEPT
                     !.pc = IF config.max_retries = 0 THEN "returned" ELSE "loop",
                     !.provider = SelectProvider(use_planning_model, config),
                     !.planning = use_planning_model /\ config.use_planning_model,
                     !.max_retries = config.max_retries]
    /\ UNCHANGED <<coreVars, llmVars, parserVars, api_config, project_file>>

\* A slip of the loop: a response that is not a 200 one is retried like a
\* RequestException.
CallApiAttemptRetriesStatus ==
    /\ conn.pc = "loop"
    /\ \E o \in PostOutcomes :
          conn' = IF o = "ok"
                  THEN [conn EXCEPT !.pc = "returned", !.ret = "dict",
                                    !.posts = @ + 1, !.did = Append(@, o)]
                  ELSE IF conn.attempt = conn.max_retries - 1
                  THEN [conn EXCEPT !.pc = "raised", !.posts = @ + 1,
                                    !.did = Append(@, o),
                                    !.exc = RetriesExhausted(conn.max_retries)]
                  ELSE [conn EXCEPT !.attempt = @ + 1, !.posts = @ + 1,
                                    !.did = Append(@, o)]
    /\ UNCHANGED <<coreVars, llmVars, parserVars, api_config, project_file>>

\* One pass of the loop of call_api: an unsupported provider raises before
\* any request; otherwise requests.post is called once, a RequestException
\* goes to the next pass or, in the last pass, raises the APIException that
\* reports max_retries, and every other exception raises an APIException.
CallApiAttempt ==
    /\ conn.pc = "loop"
    /\ IF conn.provider \notin Providers
       THEN conn' = [conn EXCEPT !.pc = "raised", !.did = Append(@, "unsupported"),
                                 !.exc = CallError]
       ELSE \E o \in PostOutcomes :
               conn' = CASE o = "ok" ->
                             [conn EXCEPT !.pc = "returned", !.ret = "dict",
                                          !.posts = @ + 1, !.did = Append(@, o)]
                         [] o = "request_exception" ->
                             IF conn.attempt = conn.max_retries - 1
                             THEN [conn EXCEPT !.pc = "raised", !.posts = @ + 1,
                                               !.did = Append(@, o),
                                               !.exc = RetriesExhausted(conn.max_retries)]
                             ELSE [conn EXCEPT !.attempt = @ + 1, !.posts = @ + 1,
                                               !.did = Append(@, o)]
                         [] OTHER ->
                             [conn EXCEPT !.pc = "raised", !.posts = @ + 1,
                                          !.did = Append(@, o), !.exc = CallError]
    /\ UNCHANGED <<coreVars, llmVars, parserVars, api_config, project_file>>

NextConn == CallApi \/ CallApiAttempt

SpecConn == Init /\ [][NextConn]_vars

LastDid == IF conn.did = <<>> THEN "nothing" ELSE conn.did[Len(conn.did)]

\* C27: call_api calls requests.post at most max_retries times; a pass is
\* followed by another only if it ended with a RequestException; after the
\* last such pass the call raises the APIException that reports max_retries;
\* a response that is not a 200 one, and an unsupported provider, raise an
\* APIException and no request follows.
CallApiRetriesOnlyRequestExceptions ==
    /\ conn.posts <= conn.max_retries
    /\ \A i \in 1 .. (Len(conn.did) - 1) : conn.did[i] = "request_exception"
    /\ (conn.pc = "raised" /\ LastDid = "request_exception")
          => /\ conn.exc = RetriesExhausted(conn.max_retries)
             /\ conn.posts = conn.max_retries
    /\ (conn.pc # "loop" /\ conn.posts < conn.max_retries)
          => LastDid # "request_exception"
    /\ LastDid \in {"non200", "unsupported"}
          => conn.pc = "raised" /\ conn.exc = CallError
    /\ LastDid = "unsupported" => conn.posts = 0

\* A call of three passes ended with the APIException that reports them.
RetriesExhaustedAfterThree ==
    /\ conn.pc = "raised"
    /\ conn.posts = 3
    /\ conn.exc = RetriesExhausted(3)


(***************************************************************************)
(* Consolidating a chapter again: the paragraph of the only chapter is     *)
(* written and written again, and manual_consolidate_world starts further  *)
(* runs for the chapter.                                                   *)
(***************************************************************************)
NextAgain ==
    \/ UserWrite
    \/ UserWriteResponse({WriteContent(<<"x">>, -1)})
    \/ UserIngestResponse({IngestDict(<<>>, <<>>, <<>>, <<Plot(<<>>, t)>>) :
                              t \in {"a", "b"}})
    \/ ManualConsolidateWorld
    \/ ConsolStep({SummaryDict(""), SummaryDict("s"), SummaryDict("t")},
                  {MergeRaises}, {ReduceRaises})

SpecAgain == InitRuns /\ [][NextAgain]_vars

\* The plot-summary sub-pass stored its result for chapter c: the entry has
\* the plot points only that sub-pass sets.
HasStoredSummary(c) ==
    /\ c \in DOMAIN world.chapter_plot_summaries
    /\ world.chapter_plot_summaries[c].plot_points # <<>>

\* Run k is at the start of its plot-summary sub-pass and takes its step.
SummaryPassRuns(k) == threads[k].pc = "s1" /\ threads'[k] # threads[k]

\* C28: the plot-summary sub-pass for a chapter that has a stored summary
\* issues no request and leaves the chapter's stored summary as it is.
StoredSummaryIsNotRegenerated ==
    [][\A k \in ThreadIds :
          (SummaryPassRuns(k) /\ HasStoredSummary(threads[k].ch))
             => /\ threads'[k].pc # "s1_llm"
                /\ world'.chapter_plot_summaries = world.chapter_plot_summaries]_vars


(***************************************************************************)
(* Paragraphs of two chapters written in any order: the first chapter has  *)
(* two paragraphs and the second has one, and the ingestion of a paragraph *)
(* returns one plot point that names the paragraph.                        *)
(***************************************************************************)
InitOrder ==
    /\ LLMInit
    /\ chapters = <<DividedChapter(2), DividedChapter(1)>>
    /\ world = NewWorld
    /\ outline = NoOutline
    /\ frames = [t \in Callers |-> IdleFrame("none")]
    /\ worker = WorkerOff
    /\ auto_writing = FALSE
    /\ threads = [k \in 1 .. MaxThreads |-> FreeThread]
    /\ consol_started = [c \in ChapterKeys |-> 0]

\* The plot point of paragraph p of chapter c.
PointOf(c, p) ==
    Plot(<<>>, (<<<<"c0p0", "c0p1">>, <<"c1p0", "c1p1">>>>)[c + 1][p + 1])

NextOrder ==
    \/ UserWrite
    \/ UserWriteResponse({WriteContent(<<"x">>, -1)})
    \/ UserIngestResponse({IngestDict(<<>>, <<>>, <<>>,
                              <<PointOf(frames["user"].ch, frames["user"].p)>>)})
    \/ ConsolStep({SummaryRaises, SummaryDict("s")}, {MergeRaises}, {ReduceRaises})

SpecOrder == InitOrder /\ [][NextOrder]_vars

\* The items of a list.
Items(l) == {l[i] : i \in 1 .. Len(l)}

\* Run k issues the request of its plot-summary sub-pass.
SummaryRequested(k) == threads[k].pc = "s1" /\ threads'[k].pc = "s1_llm"

\* C29: in whatever order the paragraphs of different chapters are written,
\* when the plot summary of a chapter is generated
\* current_chapter_plot_points holds the plot points ingested from that
\* chapter's paragraphs, all of them and no others.
BufferHoldsTheChaptersPoints ==
    [][\A k \in ThreadIds :
          SummaryRequested(k)
             => LET c == threads[k].ch
                IN Items(world.current_chapter_plot_points)
                      = {PointOf(c, p) :
                            p \in 0 .. (Len(Chap(chapters, c).paragraphs) - 1)}]_vars


(***************************************************************************)
(* The order values of paragraphs: divide_paragraphs with the "order"      *)
(* values a model can return, and the tree handlers of the window that add *)
(* and delete chapters and paragraphs. The handlers are taken between      *)
(* stage calls, with the tree showing the chapters and paragraphs of the   *)
(* project.                                                                *)
(***************************************************************************)
\* range(3) in add_chapter_node
DefaultParagraphs == 3

NoCallInFlight == \A t \in Callers : frames[t].pc = "idle"

DivideOrderResults ==
    {DivideRaises}
    \cup {DivideOrders(os) : os \in {<<>>, <<1>>, <<1, 2>>, <<2, 1>>, <<1, 1>>, <<0>>}}

UserDivideOrdersResponse ==
    /\ DivideResponse("user", DivideOrderResults)
    /\ UNCHANGED <<world, worker, auto_writing, threads, consol_started>>
    /\ UNCHANGED <<serviceVars, outline>>

\* add_chapter_node: a chapter with three paragraphs of order 0, 1, 2 is
\* appended.
AddChapterNode ==
    /\ NoCallInFlight
    /\ Len(chapters) <= NumChapters
    /\ chapters' = Append(chapters,
          [NewChapter EXCEPT !.paragraphs =
              [j \in 1 .. DefaultParagraphs |-> NewParagraph(j - 1)]])
    /\ UNCHANGED <<world, frames, worker, auto_writing, threads, consol_started>>
    /\ UNCHANGED <<serviceVars, outline>>

\* add_paragraph_node: a paragraph whose order is the number of paragraphs
\* before it is appended to a chapter.
AddParagraphNode ==
    /\ NoCallInFlight
    /\ \E c \in 1 .. Len(chapters) :
          /\ Len(chapters[c].paragraphs) <= MaxParas
          /\ chapters' = [chapters EXCEPT ![c].paragraphs =
                Append(@, NewParagraph(Len(@)))]
    /\ UNCHANGED <<world, frames, worker, auto_writing, threads, consol_started>>
    /\ UNCHANGED <<serviceVars, outline>>

\* The list l without its item at position i.
Without(l, i) == [j \in 1 .. (Len(l) - 1) |-> IF j < i THEN l[j] ELSE l[j + 1]]

\* _reindex_paragraphs: paragraph i of the chapter (counted from 0) gets the
\* order i.
Reindexed(ps) == [j \in 1 .. Len(ps) |-> [ps[j] EXCEPT !.order = j - 1]]

\* delete_selected_node on a paragraph node, and on a chapter node.
DeleteSelectedNode ==
    /\ NoCallInFlight
    /\ \E c \in 1 .. Len(chapters) :
          \/ \E p \in 1 .. Len(chapters[c].paragraphs) :
                chapters' = [chapters EXCEPT ![c].paragraphs =
                                Reindexed(Without(@, p))]
          \/ chapters' = Without(chapters, c)
    /\ UNCHANGED <<world, frames, worker, auto_writing, threads, consol_started>>
    /\ UNCHANGED <<serviceVars, outline>>

NextOrders ==
    \/ UserDivide
    \/ UserDivideOrdersResponse
    \/ AddChapterNode
    \/ AddParagraphNode
    \/ DeleteSelectedNode

SpecOrders == Init /\ [][NextOrders]_vars

\* C31: in every chapter the order values of the paragraphs are pairwise
\* distinct and count from 1, whatever divide_paragraphs was answered and
\* after any adding and deleting of paragraphs and chapters.
OrdersDistinctFromOne ==
    \A c \in 1 .. Len(chapters) :
       LET ps == chapters[c].paragraphs
       IN /\ \A i, j \in 1 .. Len(ps) : i # j => ps[i].order # ps[j].order
          /\ \A i \in 1 .. Len(ps) : ps[i].order >= 1


(***************************************************************************)
(* The escalation of the format suffix over the retries of one request.    *)
(***************************************************************************)
MaxRetryCount == 5

\* The suffix of level k: the reminder, the directive, the checklist.
SuffixLevel(k) ==
    CASE k = 1 -> "reminder_with_example"
      [] k = 2 -> "json_only_directive"
      [] OTHER -> "checklist"

\* The content of the user message of the i-th conversation sent.
UserContent(i) == sent[i][Len(sent[i])].content

\* C32: the suffix appended after the k-th failed parse is the suffix of
\* level k: the i-th conversation sent carries, after the prompt, the
\* suffixes of the levels 1 to i - 1 in this order, and
\* _enhance_json_prompt appends the checklist for every later retry count.
SuffixOfLevelKAfterKthFailure ==
    /\ \A i \in 1 .. Len(sent) :
          /\ Len(UserContent(i)) = i
          /\ \A k \in 1 .. (i - 1) : UserContent(i)[k + 1] = SuffixLevel(k)
    /\ \A k \in 3 .. MaxRetryCount :
          LET msgs == EnhanceJsonPrompt(InitialMessages("p1", "writing"), k)
          IN msgs[2].content = <<"p1", SuffixLevel(k)>>

\* Two parses failed and the third conversation was sent.
ThirdConversationHasTwoSuffixes ==
    /\ Len(sent) = 3
    /\ UserContent(3)[2] = "reminder_with_example"
    /\ UserContent(3)[3] = "json_only_directive"


\* The items of the content of the user message of a conversation.
UserItems(msgs) ==
    IF msgs = <<>> THEN {}
    ELSE {msgs[Len(msgs)].content[j] : j \in 1 .. Len(msgs[Len(msgs)].content)}

\* C40: with json_retry_max 3 the retry counts handed to
\* _enhance_json_prompt are 1 and 2, so the checklist suffix is in no
\* conversation that is sent or about to be sent.
ChecklistIsNeverSent ==
    /\ "checklist" \notin UserItems(messages)
    /\ \A i \in 1 .. Len(sent) :
          /\ "checklist" \notin UserItems(sent[i])
          /\ UserItems(sent[i]) \ Prompts
                \subseteq {"reminder_with_example", "json_only_directive"}

\* Every attempt of a request was used and none of them parsed.
AllAttemptsFailedToParse ==
    /\ llm_pc = "raised"
    /\ llm_exc = "JSONParseException"
    /\ Len(sent) = JsonRetryMax
    /\ "json_only_directive" \in UserItems(sent[JsonRetryMax])


(***************************************************************************)
(* Loading the project file that was saved.                                *)
(***************************************************************************)
\* CreationStatus(value): the member with the value.
StatusOfValue(value) ==
    CHOOSE status \in {NOT_STARTED, IN_PROGRESS, COMPLETED, ERROR} :
       StatusValue(status) = value

\* The chapters load_project builds from the data of a file.
LoadedChapters(data) ==
    [i \in 1 .. Len(data.chapters) |->
        [title |-> data.chapters[i].title,
         status |-> StatusOfValue(data.chapters[i].status),
         paragraphs |-> [j \in 1 .. Len(data.chapters[i].paragraphs) |->
            LET para_data == data.chapters[i].paragraphs[j]
            IN [order |-> para_data.order,
                status |-> StatusOfValue(para_data.status),
                content |-> para_data.content,
                word_count |-> para_data.word_count]]]]

\* The WorldBuilding load_project builds from the data of a file: seven
\* fields are read, chapter_plot_summaries and current_chapter_plot_points
\* are the empty ones of a new WorldBuilding.
LoadedWorldBuilding(data) ==
    [characters |-> data.world_building.characters,
     settings |-> data.world_building.settings,
     terminology |-> data.world_building.terminology,
     plot_points |-> data.world_building.plot_points,
     current_chapter_plot_points |-> NewWorld.current_chapter_plot_points,
     chapter_plot_summaries |-> NewWorld.chapter_plot_summaries,
     relationships |-> data.world_building.relationships,
     style_guide |-> data.world_building.style_guide,
     chapter_notes |-> data.world_building.chapter_notes]

\* load_project with a file chosen, between stage calls: the project is
\* rebuilt from the file and the API configuration from api_config.json.
LoadProject ==
    /\ project_file # NoFile
    /\ NoCallInFlight
    /\ chapters' = LoadedChapters(project_file)
    /\ world' = LoadedWorldBuilding(project_file)
    /\ outline' = project_file.outline
    /\ api_config' \in ApiConfigs
    /\ UNCHANGED <<frames, worker, auto_writing, threads, consol_started>>
    /\ UNCHANGED <<llmVars, parserVars, conn, project_file>>

NextSaveLoad ==
    \/ WriteNextParagraph
    \/ UserWriteResponse({WriteRaises, WriteContent(<<"x">>, -1)})
    \/ UserIngestResponse(IngestResultsEntries)
    \/ ConsolStep({SummaryDict("s")}, {MergeRaises}, {ReduceRaises})
    \/ SaveProject
    \/ LoadProject

SpecSaveLoad == InitMerge /\ [][NextSaveLoad]_vars

\* C33: loading the file a project was saved to restores the chapters and
\* the world building the project had: every field and status of every
\* chapter and paragraph, and every field of the world building with
\* chapter_plot_summaries and current_chapter_plot_points.
LoadRestoresWhatWasSaved ==
    [][FileWritten
         => /\ LoadedChapters(project_file') = chapters
            /\ LoadedWorldBuilding(project_file') = world]_vars


(***************************************************************************)
(* The next chapter written while a chapter is consolidated: the first     *)
(* chapter has one paragraph and the second has two, the paragraphs are    *)
(* written in the order of the book, and the ingestion of a paragraph      *)
(* fails or returns the plot point that names the paragraph.               *)
(***************************************************************************)
InitNext ==
    /\ LLMInit
    /\ chapters = <<DividedChapter(1), DividedChapter(2)>>
    /\ world = NewWorld
    /\ outline = NoOutline
    /\ frames = [t \in Callers |-> IdleFrame("none")]
    /\ worker = WorkerOff
    /\ auto_writing = FALSE
    /\ threads = [k \in 1 .. MaxThreads |-> FreeThread]
    /\ consol_started = [c \in ChapterKeys |-> 0]

\* Paragraph p of chapter c is the first of the book that is not started.
FirstNotStarted(c, p) ==
    /\ Para(chapters, c, p).status = NOT_STARTED
    /\ \A d \in 0 .. c :
          \A q \in 0 .. (Len(Chap(chapters, d).paragraphs) - 1) :
             (d < c \/ q < p) => Para(chapters, d, q).status # NOT_STARTED

\* write_current_paragraph on the first paragraph of the book that is not
\* started.
WriteInBookOrder ==
    /\ \E c \in 0 .. (Len(chapters) - 1) :
          \E p \in 0 .. (Len(Chap(chapters, c).paragraphs) - 1) :
             FirstNotStarted(c, p) /\ BeginWrite("user", c, p)
    /\ UNCHANGED <<chapters, world, worker, auto_writing, threads, consol_started>>
    /\ UNCHANGED <<serviceVars, outline>>

NextNext ==
    \/ WriteInBookOrder
    \/ UserWriteResponse({WriteRaises, WriteContent(<<"x">>, -1)})
    \/ UserIngestResponse({IngestRaises,
                           IngestDict(<<>>, <<>>, <<>>,
                              <<PointOf(frames["user"].ch, frames["user"].p)>>)})
    \/ ConsolStep({SummaryRaises, SummaryDict("s")}, {MergeRaises}, {ReduceRaises})

SpecNext == InitNext /\ [][NextNext]_vars

\* The step in which check_chapter_completion marks chapter c completed.
ChapterCompletes(c) ==
    Chap(chapters, c).status # COMPLETED /\ Chap(chapters', c).status = COMPLETED

\* The plot points of chapter c that ingestion has appended: a point is
\* appended to plot_points and to current_chapter_plot_points together, and
\* no untagged point leaves plot_points.
AppendedFor(c, w) ==
    {PointOf(c, p) : p \in 0 .. (Len(Chap(chapters, c).paragraphs) - 1)}
       \cap Items(w.plot_points)

\* C34: the plot points ingested for the chapter after a chapter are never
\* discarded by that chapter's consolidation: however the consolidation
\* thread and the ingestions are interleaved, when the later chapter
\* completes every plot point that was appended to
\* current_chapter_plot_points for it is still in the buffer.
NextChaptersPointsSurvive ==
    [][ChapterCompletes(1)
          => AppendedFor(1, world') \subseteq Items(world'.current_chapter_plot_points)]_vars


(***************************************************************************)
(* Entries ingested while the merge request of a consolidation run is      *)
(* awaited: the ingestion of a paragraph fails or adds a character named   *)
(* after the paragraph, and the merge request fails or returns the three   *)
(* maps of its prompt as they are.                                         *)
(***************************************************************************)
\* The response of a merge request that found nothing to merge: the maps of
\* the prompt.
MergeEcho(prompt) ==
    MergeDict(AllThreeMaps, prompt.characters, prompt.settings, prompt.terminology)

MergeEchoResponse ==
    /\ \E k \in ThreadIds :
          ConsolMergeResponse(k, {MergeRaises, MergeEcho(threads[k].prompt)})
    /\ UNCHANGED <<serviceVars, outline>>

NextEcho ==
    \/ WriteInBookOrder
    \/ UserWriteResponse({WriteRaises, WriteContent(<<"x">>, -1)})
    \/ UserIngestResponse({IngestRaises,
                           IngestDict(<<Entry(PointOf(frames["user"].ch,
                                                      frames["user"].p).text, "d")>>,
                                      <<>>, <<>>, <<>>)})
    \/ ConsolStep({SummaryRaises}, {}, {ReduceRaises})
    \/ MergeEchoResponse

SpecEcho == InitNext /\ [][NextEcho]_vars

\* The names map f of the world building has got since the merge request of
\* run k was issued.
AddedSinceRequest(k, f) == DOMAIN world[f] \ DOMAIN threads[k].prompt[f]

\* C35: a character, setting or term that ingestion added while a
\* consolidation was running is not lost when the run installs its merged
\* world building: an entry the prompt of the merge request did not hold is
\* still present after the installation.
IngestedEntriesSurviveMerge ==
    [][\A k \in ThreadIds :
          MergeReturns(k)
             => \A f \in AllThreeMaps :
                   AddedSinceRequest(k, f) \subseteq DOMAIN world'[f]]_vars


(***************************************************************************)
(* divide_chapters on a project that has chapters: the only chapter, of    *)
(* one paragraph and the title "old", is written and consolidated, the     *)
(* chapter list is replaced, and the new chapters are divided and written. *)
(***************************************************************************)
\* The responses of the request of divide_chapters: it raises, or returns a
\* dict with or without "chapters", a list of chapters with titles.
ChaptersRaises == [kind |-> "raise", has_chapters |-> FALSE, titles |-> <<>>]
ChaptersNoKey == [kind |-> "dict", has_chapters |-> FALSE, titles |-> <<>>]
ChaptersTitled(titles) == [kind |-> "dict", has_chapters |-> TRUE, titles |-> titles]

\* divide_chapters of the window and of the core up to the request: the
\* project has an outline.
UserDivideChapters ==
    /\ outline # NoOutline
    /\ frames["user"].pc = "idle"
    /\ frames' = [frames EXCEPT !["user"] =
          [op |-> "chapters", pc |-> "llm", ch |-> 0, p |-> 0,
           orphan |-> FALSE, ret |-> "none"]]
    /\ UNCHANGED <<chapters, world, worker, auto_writing, threads, consol_started>>
    /\ UNCHANGED <<serviceVars, outline>>

\* divide_chapters from the response on: a response that is not empty and
\* has "chapters" replaces project.chapters by new chapters without
\* paragraphs; the world building is not touched. A write_paragraph call
\* that waits for its response holds a paragraph of the old list.
DivideChaptersResponse(t, Results) ==
    /\ frames[t].op = "chapters"
    /\ frames[t].pc = "llm"
    /\ \E r \in Results :
          IF r.kind = "raise" \/ ~r.has_chapters
          THEN /\ frames' = [frames EXCEPT ![t] =
                     IdleFrame(IF r.kind = "raise" THEN "llm_error" ELSE "no_content")]
               /\ UNCHANGED chapters
          ELSE /\ chapters' = [i \in 1 .. Len(r.titles) |->
                                  [NewChapter EXCEPT !.title = r.titles[i]]]
               /\ frames' = [u \in Callers |->
                     IF u = t THEN IdleFrame("returned")
                     ELSE IF frames[u].op = "write" /\ frames[u].pc = "llm"
                     THEN [frames[u] EXCEPT !.orphan = TRUE]
                     ELSE frames[u]]
    /\ UNCHANGED <<world, worker, auto_writing, threads, consol_started>>
    /\ UNCHANGED <<serviceVars, outline>>

\* The entries of chapter_plot_summaries _get_world_context puts into the
\* context of chapter current_chapter_index: those of the indexes before it.
ContextSummaries(w, current_chapter_index) ==
    {chapter_idx \in 0 .. (current_chapter_index - 1) :
        chapter_idx \in DOMAIN w.chapter_plot_summaries}

InitRedivide ==
    /\ LLMInit
    /\ chapters = <<[DividedChapter(1) EXCEPT !.title = "old"]>>
    /\ world = NewWorld
    /\ outline = "book"
    /\ frames = [t \in Callers |-> IdleFrame("none")]
    /\ worker = WorkerOff
    /\ auto_writing = FALSE
    /\ threads = [k \in 1 .. MaxThreads |-> FreeThread]
    /\ consol_started = [c \in ChapterKeys |-> 0]

\* on_chapter_selected on a chapter that has no paragraphs.
DivideUndivided ==
    /\ \E c \in 0 .. (Len(chapters) - 1) :
          Chap(chapters, c).paragraphs = <<>> /\ BeginStage("user", "divide", c)
    /\ UNCHANGED <<chapters, world, worker, auto_writing, threads, consol_started>>
    /\ UNCHANGED <<serviceVars, outline>>

DivideInOne ==
    /\ DivideResponse("user", {DivideRaises, DivideList(1)})
    /\ UNCHANGED <<world, worker, auto_writing, threads, consol_started>>
    /\ UNCHANGED <<serviceVars, outline>>

NextRedivide ==
    \/ WriteInBookOrder
    \/ UserWriteResponse({WriteContent(<<"x">>, -1)})
    \/ UserIngestResponse({IngestDict(<<>>, <<>>, <<>>,
                              <<PointOf(frames["user"].ch, frames["user"].p)>>)})
    \/ ConsolStep({SummaryRaises, SummaryDict("s")}, {MergeRaises}, {ReduceRaises})
    \/ UserDivideChapters
    \/ DivideChaptersResponse("user", {ChaptersRaises, ChaptersNoKey,
                                       ChaptersTitled(<<"new", "next">>)})
    \/ DivideUndivided
    \/ DivideInOne
    \/ UserOutline
    \/ UserOutlineResponse

SpecRedivide == InitRedivide /\ [][NextRedivide]_vars

\* The entry of chapter index c was made for a chapter that is no longer
\* the chapter at that index: it carries another chapter's title.
OfDiscardedChapter(c) ==
    /\ c \in DOMAIN world.chapter_plot_summaries
    /\ c < Len(chapters)
    /\ world.chapter_plot_summaries[c].chapter_title # Chap(chapters, c).title

\* The step in which generate_chapter_outline builds its prompt for chapter c.
OutlinePromptBuilt(c) ==
    /\ frames["user"].pc = "idle"
    /\ frames'["user"].op = "outline"
    /\ frames'["user"].pc = "llm"
    /\ frames'["user"].ch = c

\* C36: after divide_chapters has replaced the chapter list, the run
\* started by the completion of a new chapter requests a fresh plot summary
\* from the plot points accumulated for it, and the continuity context built
\* for a new chapter holds no summary entry of a discarded chapter.
NoSummaryOfDiscardedChapterIsReused ==
    [][/\ \A k \in ThreadIds :
             (/\ SummaryPassRuns(k)
              /\ OfDiscardedChapter(threads[k].ch)
              /\ world.current_chapter_plot_points # <<>>)
                => threads'[k].pc = "s1_llm"
       /\ \A c \in 0 .. (Len(chapters) - 1) :
             OutlinePromptBuilt(c)
                => \A chapter_idx \in ContextSummaries(world, c) :
                      ~OfDiscardedChapter(chapter_idx)]_vars


(***************************************************************************)
(* The paragraphs the auto-writing worker leaves behind.                   *)
(***************************************************************************)
\* The step in which auto_writing_worker returns, after its last chapter or
\* after auto_writing was turned off.
WorkerTerminates == worker.pc # "off" /\ worker'.pc = "off"

\* C37: when the auto-writing worker has terminated, whether it finished or
\* was cancelled, no paragraph has the status IN_PROGRESS.
NoParagraphLeftInProgress ==
    [][WorkerTerminates
          => \A i \in 1 .. Len(chapters') :
                \A j \in 1 .. Len(chapters'[i].paragraphs) :
                   chapters'[i].paragraphs[j].status # IN_PROGRESS]_vars


(***************************************************************************)
(* The ingestion request fails: the two paragraphs of the only chapter are *)
(* written in any order and again, and the ingestion request of a          *)
(* paragraph fails or returns the plot point that names the paragraph.     *)
(***************************************************************************)
NextFails ==
    \/ UserWrite
    \/ UserWriteResponse({WriteRaises, WriteContent(<<"x">>, -1)})
    \/ UserIngestResponse({IngestRaises,
                           IngestDict(<<>>, <<>>, <<>>,
                              <<PointOf(frames["user"].ch, frames["user"].p)>>)})
    \/ ConsolStep({SummaryRaises, SummaryDict("s")}, {MergeRaises}, {ReduceRaises})

SpecFails == InitOne /\ [][NextFails]_vars

\* The plot point of paragraph p of chapter c is not in the world building
\* w: no ingestion request for the paragraph has returned.
NotIngested(w, c, p) == PointOf(c, p) \notin Items(w.plot_points)

\* The step that ends a write_paragraph call of the user's task after its
\* ingestion request failed.
IngestionFailed ==
    /\ frames["user"].op = "write"
    /\ frames["user"].pc = "ingest"
    /\ frames'["user"].pc = "idle"
    /\ NotIngested(world', frames["user"].ch, frames["user"].p)

\* C38: a failure of the ingestion request after a paragraph was written
\* does not undo or block the write: the paragraph stays COMPLETED with its
\* content, check_chapter_completion still runs, and write_paragraph
\* returns the content.
IngestFailureKeepsTheWrite ==
    [][IngestionFailed
          => LET c == frames["user"].ch
                 p == frames["user"].p
             IN /\ Para(chapters, c, p).status = COMPLETED
                /\ Para(chapters, c, p).content # <<>>
                /\ Para(chapters', c, p) = Para(chapters, c, p)
                /\ chapters' = AfterCheck(chapters, c)
                /\ CheckStartsConsolidation(chapters, c, TRUE)
                      => consol_started'[c] = consol_started[c] + 1
                /\ frames'["user"].ret = "returned_text"]_vars

\* Both paragraphs of the chapter were written with a failed ingestion, the
\* last call has returned the content and its check has completed the
\* chapter.
ChapterCompletedWithoutIngestion ==
    /\ frames["user"].pc = "idle"
    /\ frames["user"].ret = "returned_text"
    /\ \A p \in 0 .. 1 :
          /\ Para(chapters, 0, p).status = COMPLETED
          /\ Para(chapters, 0, p).content # <<>>
          /\ NotIngested(world, 0, p)
    /\ Chap(chapters, 0).status = COMPLETED
    /\ consol_started[0] = 1


(***************************************************************************)
(* The last paragraph of a chapter: the first chapter has one paragraph    *)
(* and the second has two, the paragraphs are written in the order of the  *)
(* book, a failed call is made again, and the ingestion request of a       *)
(* paragraph returns the plot point that names the paragraph.              *)
(***************************************************************************)
NextBook ==
    \/ WriteInBookOrder
    \/ UserWriteResponse({WriteRaises, WriteContent(<<"x">>, -1)})
    \/ UserIngestResponse({IngestDict(<<>>, <<>>, <<>>,
                              <<PointOf(frames["user"].ch, frames["user"].p)>>)})
    \/ ConsolStep({SummaryRaises, SummaryDict("s")}, {MergeRaises}, {ReduceRaises})

SpecBook == InitNext /\ [][NextBook]_vars

\* The plot point of the last paragraph of chapter c.
LastPointOf(c) == PointOf(c, Len(Chap(chapters, c).paragraphs) - 1)

\* C39: within write_paragraph the ingestion of the paragraph just written
\* is complete before the chapter-completion check runs: when the check
\* starts the consolidation run of a chapter, and when the run builds the
\* request of the plot summary, current_chapter_plot_points holds the plot
\* point ingested from the chapter's last paragraph, and the summary is
\* given that list.
LastParagraphIsIngestedBeforeSummary ==
    [][/\ \A c \in ChapterKeys :
             consol_started'[c] > consol_started[c]
                => LastPointOf(c) \in Items(world'.current_chapter_plot_points)
       /\ \A k \in ThreadIds :
             (threads[k].pc = "free" /\ threads'[k].pc = "s1")
                => LastPointOf(threads'[k].ch)
                      \in Items(world'.current_chapter_plot_points)
       /\ \A k \in ThreadIds :
             SummaryRequested(k)
                => /\ LastPointOf(threads[k].ch)
                         \in Items(world.current_chapter_plot_points)
                   /\ threads'[k].alias]_vars

====
